---- MODULE Spec2Model ----
(***************************************************************************)
(* enterprise-graph: identity resolution, incremental synchronisation and  *)
(* cross-pipeline stub references, modelled from the Python sources.       *)
(*                                                                         *)
(* The graph store (Neo4j) is modelled as maps from node id to properties  *)
(* and sets of typed relationships.  The specifications share the          *)
(* variables; each one runs one part of the program and holds the other    *)
(* parts' variables fixed:                                                 *)
(*   SpecStub  the stub writers and the authoritative Issue/Team writers   *)
(*   Spec      IdentityResolver and PersonCache on one store               *)
(*   SpecStore the same on a store that another loader wrote a Person to   *)
(*   SpecAgree IdentityResolver and PersonCache side by side               *)
(*   SpecQueue the identity links PersonCache queues and flushes           *)
(*   SpecSync  repeated runs of process_repo_ over one repository          *)
(*   SpecBranch  Step 4 of process_repo_ on every store of Branch nodes    *)
(*   SpecAccess  collaborator steps and team handlers, days apart          *)
(*   SpecEnsure  the stub writers on stores with and without the node      *)
(*   SpecRetry   one call of retry_with_backoff                            *)
(*   SpecRetryLive  the same call, which is not left unfinished            *)
(*   SpecBulk    bulk_user_handler run again and again over a repository   *)
(*   SpecCallers the handlers that resolve a GitHub user, then write links *)
(*   SpecJira    one run of the Jira loader over initiatives and epics     *)
(***************************************************************************)
EXTENDS Naturals, Sequences, FiniteSets, TLC

VARIABLES
    \* ---- stub references (Issue and Team nodes, TEAM relationships)
    issueNodes,     \* Issue nodes: id -> [key, source, summary, status]
    teamNodes,      \* Team nodes: id -> [name, source]
    stubRels,       \* relationships written by the handlers: <<type, from, to>>
    stubbedIssues,  \* history: issue keys get_or_create_issue_stub created a node for
    authIssues,     \* history: issue key -> fields of the last authoritative upsert
    stubbedTeams,   \* history: team names get_or_create_team_stub created a node for
    authTeams,      \* history: team name -> name written by the last new_team_handler
    lastStub,       \* history: the last direct call of a stub writer and what it returned
    \* ---- identity resolution (Person nodes, PersonCache)
    persons,        \* Person nodes: id -> [name, email]
    email_cache,    \* PersonCache._email_cache: email -> person_id
    provider_cache, \* PersonCache._provider_cache: <<provider, external_id>> -> person_id
    cache_hits,     \* PersonCache.cache_hits
    cache_misses,   \* PersonCache.cache_misses
    db_queries,     \* PersonCache.db_queries
    lastCall,       \* the last resolve call: who ran it, its arguments and its result
    returned,       \* history: resolver -> (email as given -> the ids returned for it)
    returnedPair,   \* history: resolver -> (<<provider, external_id>> -> the ids returned
                    \*          for it by the calls without email)
    pc_writes,      \* history: merge_person calls made by the PersonCache
    refPersons,     \* Person nodes of the store IdentityResolver uses in SpecAgree
    agree,          \* SpecAgree: the ids the two resolvers returned for the last call
    \* ---- repository synchronisation (process_repo_)
    now,            \* the clock (days)
    remoteCommits,  \* GitHub: sha -> commit date, the commits of the default branch
    remotePRs,      \* GitHub: PR number -> [state, merged, draft, updated_at]
    repoNode,       \* Repository node: [exists, last_synced_at]
    branchNodes,    \* Branch nodes: id -> [name, last_commit_sha, is_deleted]
    commitNodes,    \* Commit nodes: id -> [sha, fully_synced]
    fileNodes,      \* File nodes: the set of their ids
    prNodes,        \* PullRequest nodes: id -> [number, state]
    identities,     \* IdentityMapping nodes: id -> [username, email, person]
    syncRels,       \* relationships between these nodes: <<type, from, to>>
    authoredBy,     \* AUTHORED_BY relationships: <<commit id, person id>>
    pc,             \* the step process_repo_ is at ("idle" between runs)
    default_branch_id,   \* process_repo_'s local
    commits_to_process,  \* process_repo_'s local, the part not yet handled
    prs_to_process,      \* process_repo_'s local (number -> the PR as listed), the part not yet handled
    runs,           \* history: runs started
    failures,       \* history: exceptions raised so far
    run,            \* history of the current (or last) run
    \* ---- batched identity links (PersonCache queue and flush)
    pending_identities,  \* PersonCache._pending_identities in insertion order:
                         \*   records [identity_id, provider, username, email, person_id]
    flushed_persons,     \* PersonCache._flushed_persons
    queue_ops,      \* history: queue and flush calls made
    lastQueue,      \* history: the last queue_identity_mapping call and what it met
    lastFlush,      \* history: the last flush_identity_mappings call and what it wrote
    first_queued,   \* history: identity_id -> the pair of the call that made it pending
    flushed_log,    \* history: person ids a flush that returned wrote a link for
    written_log,    \* history: person ids any flush, returning or raising, wrote a link for
    \* ---- collaborators and team members (identity refresh)
    githubIdentities,  \* IdentityMapping nodes of provider GitHub:
                       \*   id -> [username, email, last_updated_at, person]
    lastAccess,     \* history: the last collaborator step or team handler and what it wrote
    edgeCount,      \* <<type, from, to>> -> how many relationships of that type the store
                    \*   holds between the two nodes, for those the bulk write issues
    \* ---- retry_with_backoff
    func,           \* what func() does call after call: "ok" or the message of the exception
    max_retries,    \* retry_with_backoff's argument
    initial_delay,  \* retry_with_backoff's argument
    delay,          \* retry_with_backoff's local
    attempt,        \* retry_with_backoff's loop variable
    retry_pc,       \* where retry_with_backoff is: "try", "except", "done"
    caught,         \* the exception the except clause holds
    calls,          \* history: invocations of func
    sleeps,         \* history: the durations time.sleep was called with, in order
    outcome,        \* how retry_with_backoff ended: [kind, value]
    \* ---- the Jira loader's epics
    epicNodes,      \* Jira issue ids of the Epic nodes of the store
    processed_epics,  \* main's set processed_epics
    jira_pc,        \* where main is: "initiatives", "done"
    lastEpicPass    \* history: the last loop over epics and what new_epic_handler did

stubVars == <<issueNodes, teamNodes, stubRels, stubbedIssues, authIssues,
              stubbedTeams, authTeams, lastStub>>

idVars == <<persons, email_cache, provider_cache, cache_hits, cache_misses,
            db_queries, lastCall, returned, returnedPair, pc_writes, refPersons, agree>>

syncVars == <<now, remoteCommits, remotePRs, repoNode, branchNodes, commitNodes,
              fileNodes, prNodes, identities, syncRels, authoredBy, pc,
              default_branch_id, commits_to_process, prs_to_process, runs, failures,
              run>>

queueVars == <<pending_identities, flushed_persons, queue_ops, lastQueue, lastFlush,
               first_queued, flushed_log, written_log>>

accessVars == <<githubIdentities, lastAccess, edgeCount>>

retryVars == <<func, max_retries, initial_delay, delay, attempt, retry_pc, caught, calls,
               sleeps, outcome>>

jiraVars == <<epicNodes, processed_epics, jira_pc, lastEpicPass>>

vars == <<stubVars, idVars, syncVars, queueVars, accessVars, retryVars, jiraVars>>

\* Python's None.
None == "<None>"

\* Python truthiness of an optional string: None and "" are falsy.
Truthy(x) == x # None /\ x # ""

\* The empty map.
EmptyMap == [x \in {} |-> None]

\* MERGE (n {id: $id}) SET n = props : upsert of one node by its id.
Upsert(m, id, props) ==
    [k \in DOMAIN m \cup {id} |-> IF k = id THEN props ELSE m[k]]

(***************************************************************************)
(* Strings that the code transforms character by character are sequences  *)
(* of one-character strings.                                               *)
(***************************************************************************)
UpperChars == <<"P", "T", "G", "A", "R", "L">>
LowerChars == <<"p", "t", "g", "a", "r", "l">>

\* str.lower() on one character.
LowerChar(c) ==
    IF \E i \in 1..Len(UpperChars) : UpperChars[i] = c
    THEN LowerChars[CHOOSE i \in 1..Len(UpperChars) : UpperChars[i] = c]
    ELSE c

\* str.lower()
StrLower(s) == [i \in 1..Len(s) |-> LowerChar(s[i])]

\* str.replace(old, new) for one-character old and new
StrReplace(s, old, new) == [i \in 1..Len(s) |-> IF s[i] = old THEN new ELSE s[i]]

(***************************************************************************)
(* Identity resolution: common/identity_resolver.py get_or_create_person   *)
(* and common/person_cache.py PersonCache.get_or_create_person.            *)
(* Strings are character sequences; Python's None is NoneS.                *)
(***************************************************************************)
NoneS == <<None>>

\* Python truthiness of an optional character string.
TruthyS(x) == x # NoneS /\ x # << >>

EmailInputs == {NoneS, << >>, <<"a", "@", "x">>, <<"A", "@", "x">>}
ProviderInputs == {NoneS, <<"g", "i", "t", "h", "u", "b">>, <<"j", "i", "r", "a">>}
ExternalIdInputs == {NoneS, <<"u", "1">>}
NameInputs == {"N1"}

\* The result of a resolve call that has not happened.
NoCall == [who |-> None, email |-> NoneS, provider |-> NoneS, external_id |-> NoneS,
           id |-> NoneS, is_new |-> FALSE, seen_before |-> FALSE,
           queried |-> FALSE, wrote |-> FALSE, hit |-> FALSE]

\* email = email if email else None
NormalizeEmail(email) == IF TruthyS(email) THEN email ELSE NoneS

\* The canonical person_id of identity_resolver.py:66-77 and person_cache.py:95-104
\* for a normalized email; NoneS when no id can be built.
CanonicalPersonIdProviderFirst(email, provider, external_id) ==
    IF TruthyS(provider) /\ TruthyS(external_id)
    THEN <<"p", "e", "r", "s", "o", "n", "_">> \o provider \o <<"_">> \o external_id
    ELSE IF TruthyS(email)
    THEN <<"p", "e", "r", "s", "o", "n", "_">> \o email
    ELSE NoneS

CanonicalPersonIdUnguarded(email, provider, external_id) ==
    IF TruthyS(email)
    THEN <<"p", "e", "r", "s", "o", "n", "_">> \o email
    ELSE <<"p", "e", "r", "s", "o", "n", "_">> \o provider \o <<"_">> \o external_id

CanonicalPersonId(email, provider, external_id) ==
    IF TruthyS(email)
    THEN <<"p", "e", "r", "s", "o", "n", "_">> \o email
    ELSE IF TruthyS(provider) /\ TruthyS(external_id)
    THEN <<"p", "e", "r", "s", "o", "n", "_">> \o provider \o <<"_">> \o external_id
    ELSE NoneS

\* An email query that never returns a row.
EmailLookupFindsNothing(store, email) == {NoneS}

\* MATCH (p:Person) WHERE p.email = $email AND p.email IS NOT NULL
\* RETURN p.id LIMIT 1 : the ids the query may return, {NoneS} when no row.
EmailLookup(store, email) ==
    LET found == {id \in DOMAIN store : store[id].email = email /\ email # NoneS}
    IN IF found = {} THEN {NoneS} ELSE found

\* merge_person(session, person): upsert of the Person node by its id.
merge_person(store, person) ==
    Upsert(store, person.id, [name |-> person.name, email |-> person.email])

\* identity_resolver.get_or_create_person: the possible outcomes
\* [persons, id, is_new] of one call on the store.
get_or_create_person_keyed_by_provider(store, email0, name, provider, external_id) ==
    LET email == NormalizeEmail(email0)
        person_id == CanonicalPersonIdProviderFirst(email, provider, external_id)
    IN IF person_id = NoneS
       THEN {[persons |-> store, id |-> NoneS, is_new |-> FALSE,
              queried |-> FALSE, wrote |-> FALSE]}
       ELSE {[persons |-> merge_person(store, [id |-> person_id, name |-> name,
                                               email |-> email]),
              id |-> person_id, is_new |-> TRUE, queried |-> FALSE, wrote |-> TRUE]}

get_or_create_person(store, email0, name, provider, external_id) ==
    LET email == NormalizeEmail(email0)
        person_id == CanonicalPersonId(email, provider, external_id)
    IN IF person_id = NoneS
       THEN {[persons |-> store, id |-> NoneS, is_new |-> FALSE,
              queried |-> FALSE, wrote |-> FALSE]}
       ELSE {IF existing # NoneS
             THEN [persons |-> store, id |-> existing, is_new |-> FALSE,
                   queried |-> TRUE, wrote |-> FALSE]
             ELSE [persons |-> merge_person(store, [id |-> person_id, name |-> name,
                                                    email |-> email]),
                   id |-> person_id, is_new |-> TRUE,
                   queried |-> TruthyS(email), wrote |-> TRUE]
             : existing \in IF TruthyS(email) THEN EmailLookup(store, email)
                                              ELSE {NoneS}}

\* A cache lookup that never hits.
CacheLookupMisses(c, email, provider, external_id) == NoneS

\* A cache lookup that does not consult the email table.
CacheLookupSkipsEmailTable(c, email, provider, external_id) ==
    IF ~TruthyS(email) /\ TruthyS(provider) /\ TruthyS(external_id)
       /\ <<provider, external_id>> \in DOMAIN c.provider_cache
    THEN c.provider_cache[<<provider, external_id>>]
    ELSE NoneS

\* person_cache.py:78-90, the cache lookup for a normalized email: the cached
\* id on a hit, NoneS on a miss.  The provider table is only consulted when
\* there is no email.
CacheLookup(c, email, provider, external_id) ==
    IF TruthyS(email)
    THEN IF email \in DOMAIN c.email_cache THEN c.email_cache[email] ELSE NoneS
    ELSE IF TruthyS(provider) /\ TruthyS(external_id)
            /\ <<provider, external_id>> \in DOMAIN c.provider_cache
    THEN c.provider_cache[<<provider, external_id>>]
    ELSE NoneS

\* PersonCache.get_or_create_person: the possible outcomes of one call on the
\* cache c = [email_cache, provider_cache, cache_hits, cache_misses, db_queries]
\* and the store.
PersonCache_get_or_create_person(c, store, email0, name, provider, external_id) ==
    LET email == NormalizeEmail(email0)
        person_id == CanonicalPersonId(email, provider, external_id)
        pair == <<provider, external_id>>
        hasPair == TruthyS(provider) /\ TruthyS(external_id)
        miss == [c EXCEPT !.cache_misses = @ + 1]
        Cached(cc, id) ==
            [cc EXCEPT !.email_cache = IF TruthyS(email) THEN Upsert(@, email, id) ELSE @,
                       !.provider_cache = IF hasPair THEN Upsert(@, pair, id) ELSE @]
        cached == CacheLookup(c, email, provider, external_id)
    IN IF cached # NoneS
       THEN {[cache |-> [c EXCEPT !.cache_hits = @ + 1], persons |-> store,
              id |-> cached, is_new |-> FALSE,
              queried |-> FALSE, wrote |-> FALSE]}
       ELSE IF person_id = NoneS
       THEN {[cache |-> miss, persons |-> store, id |-> NoneS, is_new |-> FALSE,
              queried |-> FALSE, wrote |-> FALSE]}
       ELSE {IF existing # NoneS
             THEN [cache |-> Cached([miss EXCEPT !.db_queries = @ + 1], existing),
                   persons |-> store, id |-> existing, is_new |-> FALSE,
                   queried |-> TRUE, wrote |-> FALSE]
             ELSE [cache |-> Cached(IF TruthyS(email)
                                    THEN [miss EXCEPT !.db_queries = @ + 1]
                                    ELSE miss, person_id),
                   persons |-> merge_person(store, [id |-> person_id, name |-> name,
                                                    email |-> email]),
                   id |-> person_id, is_new |-> TRUE,
                   queried |-> TruthyS(email), wrote |-> TRUE]
             : existing \in IF TruthyS(email) THEN EmailLookup(store, email)
                                              ELSE {NoneS}}

\* The PersonCache object as one record.
Cache == [email_cache |-> email_cache, provider_cache |-> provider_cache,
          cache_hits |-> cache_hits, cache_misses |-> cache_misses,
          db_queries |-> db_queries]

\* Calls a PersonCache of one run serves at most.
MaxCacheCalls == 3


Record(who, email0, provider, external_id, r, hit) ==
    /\ lastCall' = [who |-> who, email |-> email0, provider |-> provider,
                    external_id |-> external_id, id |-> r.id, is_new |-> r.is_new,
                    seen_before |-> /\ TruthyS(email0)
                                   /\ \E e \in DOMAIN returned[who] :
                                         StrLower(e) = StrLower(email0),
                    queried |-> r.queried, wrote |-> r.wrote, hit |-> hit]
    /\ returned' = IF TruthyS(email0)
                   THEN [returned EXCEPT ![who] =
                            Upsert(@, email0,
                                   (IF email0 \in DOMAIN @ THEN @[email0] ELSE {})
                                       \cup {r.id})]
                   ELSE returned
    /\ returnedPair' =
          IF ~TruthyS(email0) /\ TruthyS(provider) /\ TruthyS(external_id)
          THEN [returnedPair EXCEPT ![who] =
                   Upsert(@, <<provider, external_id>>,
                          (IF <<provider, external_id>> \in DOMAIN @
                           THEN @[<<provider, external_id>>] ELSE {}) \cup {r.id})]
          ELSE returnedPair

\* One call of identity_resolver.get_or_create_person on the store.
IRResolve(email, name, provider, external_id) ==
    \E r \in get_or_create_person(persons, email, name, provider, external_id) :
        /\ persons' = r.persons
        /\ Record("IdentityResolver", email, provider, external_id, r, FALSE)
        /\ UNCHANGED <<email_cache, provider_cache, cache_hits, cache_misses,
                       db_queries, pc_writes, refPersons, agree>>
        /\ UNCHANGED <<stubVars, syncVars, queueVars, accessVars, retryVars, jiraVars>>

\* One call of PersonCache.get_or_create_person on the cache and the store.
PCResolve(email, name, provider, external_id) ==
    /\ cache_hits + cache_misses < MaxCacheCalls
    /\ \E r \in PersonCache_get_or_create_person(Cache, persons, email, name,
                                                 provider, external_id) :
        /\ persons' = r.persons
        /\ email_cache' = r.cache.email_cache
        /\ provider_cache' = r.cache.provider_cache
        /\ cache_hits' = r.cache.cache_hits
        /\ cache_misses' = r.cache.cache_misses
        /\ db_queries' = r.cache.db_queries
        /\ Record("PersonCache", email, provider, external_id, r,
                  r.cache.cache_hits # cache_hits)
        /\ pc_writes' = IF r.wrote THEN pc_writes + 1 ELSE pc_writes
        /\ UNCHANGED <<refPersons, agree>>
        /\ UNCHANGED <<stubVars, syncVars, queueVars, accessVars, retryVars, jiraVars>>

IdleId ==
    /\ persons = EmptyMap
    /\ email_cache = EmptyMap
    /\ provider_cache = EmptyMap
    /\ cache_hits = 0
    /\ cache_misses = 0
    /\ db_queries = 0
    /\ lastCall = NoCall
    /\ returned = [w \in {"IdentityResolver", "PersonCache"} |-> EmptyMap]
    /\ returnedPair = [w \in {"IdentityResolver", "PersonCache"} |-> EmptyMap]
    /\ pc_writes = 0
    /\ refPersons = EmptyMap
    /\ agree = [ir |-> NoneS, pc |-> NoneS]

(***************************************************************************)
(* Stub references: get_or_create_issue_stub (GitHub pipeline),            *)
(* new_issue_handler (Jira pipeline), get_or_create_team_stub (Jira        *)
(* pipeline) and new_team_handler (GitHub pipeline).                       *)
(***************************************************************************)

\* Issue keys found in commit messages / carried by Jira issues.
IssueKeys == {"AB-1", "AB-2"}


Statuses == {"Open", "Done"}

\* Team names as Jira work items carry them, and the GitHub teams (slug, name).
TeamNames == {<<"P", " ", "T">>, <<"P", "-", "T">>, <<"G">>}
\* A work item without a team field.
NoTeam == << >>

\* The (id, key) pairs issue_data can carry: the real issues, and records that
\* lack the id or the key.
JiraIssueData ==
    {[id |-> IF k = "AB-1" THEN "10" ELSE "11", key |-> k] : k \in IssueKeys}
        \cup {[id |-> "", key |-> "AB-1"], [id |-> "10", key |-> ""]}

GithubTeams == {[slug |-> <<"p", "-", "t">>, name |-> <<"P", " ", "T">>],
                [slug |-> <<"g">>, name |-> <<"G">>]}

RepoId == "repo_r"

\* issue_id = f"issue_{issue_key}"
IssueStubId(issue_key) == "issue_" \o issue_key

\* issue_id = f"issue_jira_{jira_issue_id}"
IssueJiraId(jira_issue_id) == "issue_jira_" \o jira_issue_id

\* team_id = f"team_{team_name.lower().replace(' ', '_').replace('-', '_')}"
TeamStubId(team_name) ==
    <<"t", "e", "a", "m", "_">>
        \o StrReplace(StrReplace(StrLower(team_name), " ", "_"), "-", "_")

\* team_id = f"team_github_{team_slug}"
TeamGithubId(team_slug) ==
    <<"t", "e", "a", "m", "_", "g", "i", "t", "h", "u", "b", "_">> \o team_slug

\* A merge that sets the stub's fields whether or not the node exists.
IssueStubOverwrite(nodes, issue_key) ==
    Upsert(nodes, IssueStubId(issue_key),
           [key |-> issue_key, source |-> "github_reference",
            summary |-> None, status |-> None])

\* MERGE (i:Issue {id}) ON CREATE SET key, source = 'github_reference'
IssueStubMerge(nodes, issue_key) ==
    IF IssueStubId(issue_key) \in DOMAIN nodes
    THEN nodes
    ELSE Upsert(nodes, IssueStubId(issue_key),
                [key |-> issue_key, source |-> "github_reference",
                 summary |-> None, status |-> None])

\* MERGE (t:Team {id}) ON CREATE SET name, source = 'jira_reference'
TeamStubMerge(nodes, team_name) ==
    IF TeamStubId(team_name) \in DOMAIN nodes
    THEN nodes
    ELSE Upsert(nodes, TeamStubId(team_name),
                [name |-> team_name, source |-> "jira_reference"])

\* merge_issue(session, issue, relationships): the authoritative upsert of the
\* Issue node by its id, overwriting every field, and of its relationships.
merge_issue(nodes, issue) ==
    Upsert(nodes, issue.id,
           [key |-> issue.key, source |-> "jira",
            summary |-> issue.summary, status |-> issue.status])

\* merge_team(session, team_node): the authoritative upsert of the Team node.
merge_team(nodes, team) ==
    Upsert(nodes, team.id, [name |-> team.name, source |-> "github"])

\* get_or_create_issue_stub(session, issue_key), called by new_commit_handler
\* for every issue key found in the commit message or branch name.
GetOrCreateIssueStub(issue_key) ==
    /\ issueNodes' = IssueStubMerge(issueNodes, issue_key)
    /\ stubbedIssues' = IF IssueStubId(issue_key) \in DOMAIN issueNodes
                        THEN stubbedIssues
                        ELSE stubbedIssues \cup {issue_key}
    /\ lastStub' = [writer |-> "get_or_create_issue_stub", arg |-> issue_key,
                    id |-> IssueStubId(issue_key),
                    existed |-> IssueStubId(issue_key) \in DOMAIN issueNodes]
    /\ UNCHANGED <<teamNodes, stubRels, authIssues, stubbedTeams, authTeams>>
    /\ UNCHANGED <<idVars, syncVars, queueVars, accessVars, retryVars, jiraVars>>

\* get_or_create_team_stub(session, team_name), called by the Jira epic and
\* initiative handlers.
GetOrCreateTeamStub(team_name) ==
    /\ teamNodes' = TeamStubMerge(teamNodes, team_name)
    /\ stubbedTeams' = IF TeamStubId(team_name) \in DOMAIN teamNodes
                       THEN stubbedTeams
                       ELSE stubbedTeams \cup {team_name}
    /\ lastStub' = [writer |-> "get_or_create_team_stub", arg |-> team_name,
                    id |-> TeamStubId(team_name),
                    existed |-> TeamStubId(team_name) \in DOMAIN teamNodes]
    /\ UNCHANGED <<issueNodes, stubRels, stubbedIssues, authIssues, authTeams>>
    /\ UNCHANGED <<idVars, syncVars, queueVars, accessVars, retryVars, jiraVars>>

\* new_issue_handler(session, issue_data, ...) for an issue without assignee,
\* reporter, sprint, epic or links (those branches only add relationships
\* leaving the issue node).  jira_issue_id or issue_key may be missing ("").
NewIssueHandler(jira_issue_id, issue_key, summary, status, team_value) ==
    IF ~Truthy(jira_issue_id) \/ ~Truthy(issue_key)
    THEN UNCHANGED vars
    ELSE LET issue_id == IssueJiraId(jira_issue_id)
             issue == [id |-> issue_id, key |-> issue_key,
                       summary |-> summary, status |-> status]
         IN /\ teamNodes' = IF team_value # NoTeam
                            THEN TeamStubMerge(teamNodes, team_value)
                            ELSE teamNodes
            /\ stubbedTeams' = IF team_value # NoTeam
                                  /\ TeamStubId(team_value) \notin DOMAIN teamNodes
                               THEN stubbedTeams \cup {team_value}
                               ELSE stubbedTeams
            /\ issueNodes' = merge_issue(issueNodes, issue)
            /\ stubRels' = IF team_value # NoTeam
                           THEN stubRels \cup {<<"TEAM", issue_id, TeamStubId(team_value)>>}
                           ELSE stubRels
            /\ authIssues' = Upsert(authIssues, issue_key,
                                    [summary |-> summary, status |-> status])
            /\ UNCHANGED <<stubbedIssues, authTeams, lastStub>>
            /\ UNCHANGED <<idVars, syncVars, queueVars, accessVars, retryVars, jiraVars>>

\* new_team_handler(session, team, repo_id, ...) for a team whose member list
\* is empty: the Team node and its COLLABORATOR relationship.
NewTeamHandler(team) ==
    LET team_id == TeamGithubId(team.slug)
    IN /\ teamNodes' = merge_team(teamNodes, [id |-> team_id, name |-> team.name])
       /\ stubRels' = stubRels \cup {<<"COLLABORATOR", team_id, RepoId>>}
       /\ authTeams' = Upsert(authTeams, team.name, team.name)
       /\ UNCHANGED <<issueNodes, stubbedIssues, authIssues, stubbedTeams, lastStub>>
       /\ UNCHANGED <<idVars, syncVars, queueVars, accessVars, retryVars, jiraVars>>


IdleStub ==
    /\ lastStub = [writer |-> None, arg |-> None, id |-> None, existed |-> FALSE]
    /\ issueNodes = EmptyMap
    /\ teamNodes = EmptyMap
    /\ stubRels = {}
    /\ stubbedIssues = {}
    /\ authIssues = EmptyMap
    /\ stubbedTeams = {}
    /\ authTeams = EmptyMap

(***************************************************************************)
(* Repository synchronisation: modules/github/process_repo.py process_repo_ *)
(* run again and again over one repository "r" whose default branch is     *)
(* "main".  The repository is a personal one without collaborators         *)
(* (get_teams raises for it).  Time is counted in days.                    *)
(***************************************************************************)
MaxRuns == 3
\* At most MaxFailures calls raise in one behaviour.
MaxFailures == 2
StartTime == 100
MaxClock == 3

\* int(os.getenv('COMMIT_DAYS_LIMIT', '60')), int(os.getenv('PULL_REQUEST_DAYS_LIMIT', '60'))
commit_days_limit == 60
pr_days_limit == 60

default_branch == "main"
RemoteBranches == {"main", "dev"}
PushableShas == {"c2"}
Shas == {"c0", "c1"} \cup PushableShas
PRNumbers == {1}

\* The commits main has when the first run starts: c0 is older than the
\* lookback window, c1 is inside it.
InitialCommits == [sha \in Shas \ PushableShas |-> IF sha = "c0" THEN StartTime - 90
                                                          ELSE StartTime - 5]
InitialPRs == [n \in PRNumbers |-> [state |-> "open", merged |-> FALSE, draft |-> FALSE,
                                    updated_at |-> StartTime - 3]]

\* commit.files, commit.author and the issue keys of commit.commit.message
FilesOf(sha) == IF sha = "c1" THEN <<"f1", "f2">> ELSE <<"f1">>
AuthorOf(sha) == [login |-> <<"u", "1">>, name |-> "N1",
                  email |-> IF sha = "c2" THEN << >> ELSE <<"a", "@", "x">>]
extract_issue_keys(sha) == IF sha = "c1" THEN {"AB-1"} ELSE {}

\* The newest of a non-empty set of commits: GitHub lists newest first.
Newest(commits, shas) == CHOOSE s \in shas : \A t \in shas : commits[t] <= commits[s]

\* branch.commit.sha
HeadOf(commits, branch) ==
    IF branch = default_branch THEN Newest(commits, DOMAIN commits) ELSE "d1"

\* f"commit_{repo_name}_{commit_sha[:8]}": the shas here have at most 8 characters
CommitId(sha) == "commit_r_" \o sha
\* f"branch_{repo.name}_{branch_name.replace('/', '_').replace('-', '_')}": the
\* names in RemoteBranches contain neither '/' nor '-'
BranchId(name) == "branch_r_" \o name
\* f"file_{repo_name}_{path_hash}": the hash is taken to be injective on the paths
FileId(path) == "file_r_" \o path
PrId(n) == "pr_r_" \o ToString(n)
IdentityId(login) ==
    <<"i", "d", "e", "n", "t", "i", "t", "y", "_", "g", "i", "t", "h", "u", "b", "_">> \o login
GitHubProvider == <<"g", "i", "t", "h", "u", "b">>

\* The ids of the nodes a relationship of syncRels can attach to.
NodeIds(repo, branches, commits, files, prs, issues) ==
    (IF repo.exists THEN {RepoId} ELSE {}) \cup DOMAIN branches \cup DOMAIN commits
        \cup files \cup DOMAIN prs \cup DOMAIN issues

\* merge_relationship(session, rel): the relationship is created between two
\* existing nodes, once.
merge_relationship(rels, ids, rel) ==
    IF rel[2] \in ids /\ rel[3] \in ids THEN rels \cup {rel} ELSE rels

\* get_existing_branch_metadata(session, repo_id): name -> {last_commit_sha, is_deleted}
get_existing_branch_metadata(nodes, rels) ==
    LET ids == {id \in DOMAIN nodes : <<"BRANCH_OF", id, RepoId>> \in rels}
    IN [name \in {nodes[id].name : id \in ids} |->
            LET id == CHOOSE i \in ids : nodes[i].name = name
            IN [last_commit_sha |-> nodes[id].last_commit_sha,
                is_deleted |-> nodes[id].is_deleted]]

\* A filter that looks at the head only.
BranchesToProcessIgnoresDeleted(commits, existing_branches) ==
    {b \in RemoteBranches :
        \/ b \notin DOMAIN existing_branches
        \/ existing_branches[b].last_commit_sha # HeadOf(commits, b)}

\* process_repo.py:237-243
BranchesToProcess(commits, existing_branches) ==
    {b \in RemoteBranches :
        \/ b \notin DOMAIN existing_branches
        \/ existing_branches[b].last_commit_sha # HeadOf(commits, b)
        \/ existing_branches[b].is_deleted}

\* get_fully_synced_commit_shas(session, repo_id)
get_fully_synced_commit_shas(nodes, rels) ==
    {nodes[c].sha : c \in {c \in DOMAIN nodes :
        /\ nodes[c].fully_synced
        /\ \E r \in rels : /\ r[1] = "PART_OF" /\ r[2] = c
                           /\ <<"BRANCH_OF", r[3], RepoId>> \in rels}}

\* get_fully_synced_pr_numbers(session, repo_id)
get_fully_synced_pr_numbers(nodes, rels) ==
    {nodes[p].number : p \in {p \in DOMAIN nodes :
        /\ nodes[p].state \in {"merged", "closed"}
        /\ \E r \in rels : /\ r[1] = "TARGETS" /\ r[2] = p
                           /\ <<"BRANCH_OF", r[3], RepoId>> \in rels}}

\* The commit pass without its filter: every listed commit is handled.
CommitsToProcessUnfiltered(commits, existing_shas) == commits

\* [c for c in commits if c.sha not in existing_shas]
CommitsToProcess(commits, existing_shas) == commits \ existing_shas

\* The pull-request pass without its filter.
PRsToProcessAll(recent_prs, existing_pr_numbers) == recent_prs

\* A filter that skips every pull request the store holds as closed or merged.
PRsToProcessSkipsTerminal(recent_prs, existing_pr_numbers) ==
    [n \in {m \in DOMAIN recent_prs : m \notin existing_pr_numbers} |-> recent_prs[n]]

\* [pr for pr in recent_prs if pr.number not in existing_pr_numbers or pr.state == 'open']
PRsToProcess(recent_prs, existing_pr_numbers) ==
    [n \in {m \in DOMAIN recent_prs :
                m \notin existing_pr_numbers \/ recent_prs[m].state = "open"} |-> recent_prs[n]]

\* A boundary that is always the lookback.
SinceDateAlwaysLookback(last_synced, t, days_limit) ==
    t - days_limit

\* last_synced if last_synced else now - days_limit
SinceDate(last_synced, t, days_limit) ==
    IF last_synced # 0 THEN last_synced ELSE t - days_limit

\* is_commit_fully_synced(session, commit_id, commit_sha)
is_commit_fully_synced(nodes, commit_id) ==
    commit_id \in DOMAIN nodes /\ nodes[commit_id].fully_synced

\* mark_commit_fully_synced(session, commit_id): MATCH ... SET c.fully_synced = true
mark_commit_fully_synced(nodes, commit_id) ==
    IF commit_id \in DOMAIN nodes
    THEN [nodes EXCEPT ![commit_id].fully_synced = TRUE]
    ELSE nodes

\* merge_commit(session, commit_node): the Commit properties are upserted,
\* fully_synced is not one of them.
merge_commit(nodes, commit_id, sha) ==
    Upsert(nodes, commit_id,
           [sha |-> sha,
            fully_synced |-> commit_id \in DOMAIN nodes /\ nodes[commit_id].fully_synced])

\* Where a run of new_commit_handler fails: nowhere, at merge_commit, at the
\* listing of commit.files, inside new_file_handler for the k-th file, or at
\* the merge of the k-th MODIFIES relationship.
NoFailure == [at |-> "none", k |-> 0]
CommitFailures(sha) ==
    {NoFailure, [at |-> "merge_commit", k |-> 0], [at |-> "files", k |-> 0]}
    \cup {[at |-> a, k |-> i] : a \in {"new_file_handler", "modifies"},
                                i \in 1..Len(FilesOf(sha))}

AllCommitFailures == UNION {CommitFailures(sha) : sha \in Shas}

\* new_file_handler(session, repo_name, file_path, ...): merges the File node
\* and returns its id; on any exception returns the fallback id.
new_file_handler(files, path, ok) ==
    IF ok THEN [fileNodes |-> files \cup {FileId(path)}, file_id |-> FileId(path)]
          ELSE [fileNodes |-> files, file_id |-> "file_r_error"]

\* The for loop of new_commit_handler.py:384-409 from the i-th file on.
\* st = [fileNodes, rels, raised]; ids are the nodes that are not File nodes.
RECURSIVE ProcessFiles(_, _, _, _, _, _)
ProcessFiles(files, i, commit_id, ids, st, fail) ==
    IF i > Len(files) THEN st
    ELSE LET f == new_file_handler(st.fileNodes, files[i],
                                   ~(fail.at = "new_file_handler" /\ fail.k = i))
         IN IF fail.at = "modifies" /\ fail.k = i
            THEN [fileNodes |-> f.fileNodes, rels |-> st.rels, raised |-> TRUE]
            ELSE ProcessFiles(files, i + 1, commit_id, ids,
                              [fileNodes |-> f.fileNodes,
                               rels |-> IF Truthy(f.file_id)
                                        THEN merge_relationship(st.rels, ids \cup f.fileNodes,
                                                 <<"MODIFIES", commit_id, f.file_id>>)
                                        ELSE st.rels,
                               raised |-> FALSE], fail)

\* n more exceptions are raised.
Raise(n) == failures + n <= MaxFailures /\ failures' = failures + n

\* The history of a run that has just started.
NewRun == [fetched |-> {}, existing_shas |-> {}, handled |-> {}, fileFailed |-> {},
           commitPass |-> FALSE, commitPassFailed |-> FALSE, prPassFailed |-> FALSE,
           syncedAtStart |-> 0, completed |-> FALSE, prevFileFailed |-> {},
           remoteSame |-> FALSE, changed |-> FALSE,
           commitSince |-> 0, commitAt |-> 0, prSince |-> 0, prAt |-> 0,
           stored |-> 0, rootFailed |-> FALSE,
           commits_processed |-> {}, commits_failed |-> {}, writeFailed |-> {},
           prListed |-> FALSE, recent_prs |-> EmptyMap, existing_pr_numbers |-> {},
           prHandled |-> {}, prStateBefore |-> EmptyMap,
           branchesListed |-> FALSE, branchesHandled |-> {}]

\* for issue_key in unique_issue_keys: get_or_create_issue_stub(session, issue_key)
RECURSIVE MergeIssueStubs(_, _)
MergeIssueStubs(nodes, keys) ==
    IF keys = {} THEN nodes
    ELSE LET k == CHOOSE x \in keys : TRUE
         IN MergeIssueStubs(IssueStubMerge(nodes, k), keys \ {k})

remoteVars == <<remoteCommits, remotePRs>>
storeVars == <<repoNode, branchNodes, commitNodes, fileNodes, prNodes, identities,
               syncRels, authoredBy>>
localVars == <<default_branch_id, commits_to_process, prs_to_process>>
\* What no step of process_repo_ touches.
otherVars == <<teamNodes, stubRels, authIssues, stubbedTeams, authTeams, lastStub,
               email_cache, provider_cache, cache_hits, cache_misses, db_queries,
               lastCall, returned, returnedPair, pc_writes, refPersons, agree,
               queueVars, accessVars, retryVars, jiraVars>>
issueVars == <<issueNodes, stubbedIssues>>

\* A process_repo_ that logs the failure of new_repo_handler and goes on.
StartRunGoesOn(ok) ==
    /\ pc = "idle"
    /\ Raise(IF ok THEN 0 ELSE 1)
    /\ runs < MaxRuns
    /\ runs' = runs + 1
    /\ run' = [NewRun EXCEPT !.syncedAtStart = repoNode.last_synced_at,
                             !.prevFileFailed = run.fileFailed,
                             !.remoteSame = (runs > 0 /\ ~run.changed),
                             !.stored = run.stored,
                             !.rootFailed = ~ok]
    /\ repoNode' = IF ok THEN [repoNode EXCEPT !.exists = TRUE] ELSE repoNode
    /\ pc' = "collaborators"
    /\ default_branch_id' = None
    /\ commits_to_process' = {}
    /\ prs_to_process' = EmptyMap
    /\ UNCHANGED <<now, remoteVars, branchNodes, commitNodes, fileNodes, prNodes,
                   identities, syncRels, authoredBy, persons, issueVars, otherVars>>

\* process_repo_ is called: Step 1, new_repo_handler.  It raises when the
\* Repository node cannot be merged, and the run ends there.
StartRun(ok) ==
    /\ pc = "idle"
    /\ Raise(IF ok THEN 0 ELSE 1)
    /\ runs < MaxRuns
    /\ runs' = runs + 1
    /\ run' = [NewRun EXCEPT !.syncedAtStart = repoNode.last_synced_at,
                             !.prevFileFailed = run.fileFailed,
                             !.remoteSame = (runs > 0 /\ ~run.changed),
                             !.stored = run.stored,
                             !.rootFailed = ~ok]
    /\ repoNode' = IF ok THEN [repoNode EXCEPT !.exists = TRUE] ELSE repoNode
    /\ pc' = IF ok THEN "collaborators" ELSE "idle"
    /\ default_branch_id' = None
    /\ commits_to_process' = {}
    /\ prs_to_process' = EmptyMap
    /\ UNCHANGED <<now, remoteVars, branchNodes, commitNodes, fileNodes, prNodes,
                   identities, syncRels, authoredBy, persons, issueVars, otherVars>>

\* Step 2: the repository has no collaborators, nothing is written.
ProcessCollaborators ==
    /\ pc = "collaborators"
    /\ pc' = "teams"
    /\ UNCHANGED <<now, runs, failures, run, remoteVars, storeVars, localVars, persons,
                   issueVars, otherVars>>

\* A process_repo_ that goes from the teams straight to the commits.
ProcessTeamsThenCommits ==
    /\ pc = "teams"
    /\ pc' = "commits"
    /\ UNCHANGED <<now, runs, failures, run, remoteVars, storeVars, localVars, persons,
                   issueVars, otherVars>>

\* Step 3: repo.get_teams() raises for a personal repository, the exception is logged.
ProcessTeams ==
    /\ pc = "teams"
    /\ pc' = "branches"
    /\ UNCHANGED <<now, runs, failures, run, remoteVars, storeVars, localVars, persons,
                   issueVars, otherVars>>

\* Step 4: the branches that are new or whose head moved are handled;
\* new_branch_handler logs its own exceptions, the handlers of `failing` raise
\* before merge_branch.  listOk is FALSE when repo.get_branches() raises.
ProcessBranches(listOk, failing) ==
    /\ pc = "branches"
    /\ Raise(IF listOk THEN Cardinality(failing) ELSE 1)
    /\ pc' = "commits"
    /\ LET existing_branches == get_existing_branch_metadata(branchNodes, syncRels)
           branches_to_process == BranchesToProcess(remoteCommits, existing_branches)
           written == branches_to_process \ failing
           nodes == [id \in DOMAIN branchNodes \cup {BranchId(b) : b \in written} |->
                        IF \E b \in written : id = BranchId(b)
                        THEN LET b == CHOOSE x \in written : id = BranchId(x)
                             IN [name |-> b, last_commit_sha |-> HeadOf(remoteCommits, b),
                                 is_deleted |-> FALSE]
                        ELSE branchNodes[id]]
       IN IF listOk
          THEN /\ failing \subseteq branches_to_process
               /\ branchNodes' = nodes
               /\ syncRels' = syncRels \cup {<<"BRANCH_OF", BranchId(b), RepoId>> : b \in written}
               /\ default_branch_id' = IF default_branch \in branches_to_process
                                       THEN BranchId(default_branch) ELSE None
          ELSE /\ failing = {}
               /\ default_branch_id' = None
               /\ UNCHANGED <<branchNodes, syncRels>>
    /\ run' = IF listOk
              THEN [run EXCEPT !.branchesListed = TRUE,
                               !.branchesHandled =
                                   BranchesToProcess(remoteCommits,
                                       get_existing_branch_metadata(branchNodes, syncRels))]
              ELSE run
    /\ UNCHANGED <<now, runs, remoteVars, repoNode, commitNodes, fileNodes, prNodes,
                   identities, authoredBy, commits_to_process, prs_to_process, persons,
                   issueVars, otherVars>>

\* A Step 5 that lists the commits of the default branch in every run, whether
\* Step 4 handled that branch or not.
FetchCommitsEveryRun(listOk) ==
    /\ pc = "commits"
    /\ Raise(IF listOk THEN 0 ELSE 1)
    /\ IF ~listOk
       THEN /\ commits_to_process' = {}
            /\ pc' = "prs"
            /\ run' = [run EXCEPT !.commitPass = TRUE, !.commitPassFailed = TRUE]
       ELSE LET since_date == SinceDate(repoNode.last_synced_at, now, commit_days_limit)
                commits == {s \in DOMAIN remoteCommits : remoteCommits[s] >= since_date}
                existing_shas == get_fully_synced_commit_shas(commitNodes, syncRels)
                todo == CommitsToProcess(commits, existing_shas)
            IN /\ commits_to_process' = todo
               /\ pc' = IF todo = {} THEN "prs" ELSE "commit_loop"
               /\ run' = [run EXCEPT !.commitPass = TRUE, !.fetched = commits,
                                     !.existing_shas = existing_shas,
                                     !.commitSince = since_date, !.commitAt = now]
    /\ UNCHANGED <<now, runs, remoteVars, storeVars, default_branch_id, prs_to_process,
                   persons, issueVars, otherVars>>

\* Step 5 up to the loop: skipped without a default_branch_id; otherwise the
\* commits since since_date are listed (listOk is FALSE when the listing
\* raises) and those already fully synced are filtered out.
FetchCommits(listOk) ==
    /\ pc = "commits"
    /\ Raise(IF listOk THEN 0 ELSE 1)
    /\ IF ~Truthy(default_branch_id)
       THEN /\ listOk
            /\ commits_to_process' = {}
            /\ pc' = "prs"
            /\ UNCHANGED run
       ELSE IF ~listOk
       THEN /\ commits_to_process' = {}
            /\ pc' = "prs"
            /\ run' = [run EXCEPT !.commitPass = TRUE, !.commitPassFailed = TRUE]
       ELSE LET since_date == SinceDate(repoNode.last_synced_at, now, commit_days_limit)
                commits == {s \in DOMAIN remoteCommits : remoteCommits[s] >= since_date}
                existing_shas == get_fully_synced_commit_shas(commitNodes, syncRels)
                todo == CommitsToProcess(commits, existing_shas)
            IN /\ commits_to_process' = todo
               /\ pc' = IF todo = {} THEN "prs" ELSE "commit_loop"
               /\ run' = [run EXCEPT !.commitPass = TRUE, !.fetched = commits,
                                     !.existing_shas = existing_shas,
                                     !.commitSince = since_date, !.commitAt = now]
    /\ UNCHANGED <<now, runs, remoteVars, storeVars, default_branch_id, prs_to_process,
                   persons, issueVars, otherVars>>

\* One iteration of the loop of Step 5: new_commit_handler on the next commit.
HandleCommit(fail) ==
    /\ pc = "commit_loop"
    /\ Raise(IF fail = NoFailure THEN 0 ELSE 1)
    /\ LET sha == Newest(remoteCommits, commits_to_process)
           commit_id == CommitId(sha)
           author == AuthorOf(sha)
           rest == commits_to_process \ {sha}
           keys == extract_issue_keys(sha)
       IN /\ fail \in CommitFailures(sha)
          /\ commits_to_process' = rest
          /\ pc' = IF rest = {} THEN "prs" ELSE "commit_loop"
          /\ IF is_commit_fully_synced(commitNodes, commit_id)
             THEN /\ fail = NoFailure
                  /\ run' = [run EXCEPT !.handled = @ \cup {sha},
                                        !.commits_processed = @ \cup {sha}]
                  /\ UNCHANGED <<persons, identities, commitNodes, fileNodes, syncRels,
                                 authoredBy, issueVars>>
             ELSE \E r \in get_or_create_person(persons, author.email, author.name,
                                                GitHubProvider, author.login) :
                    LET commits1 == merge_commit(commitNodes, commit_id, sha)
                        issues1 == MergeIssueStubs(issueNodes, keys)
                        ids == NodeIds(repoNode, branchNodes, commits1, {}, prNodes, issues1)
                        rels1 == merge_relationship(syncRels, ids,
                                                    <<"PART_OF", commit_id, default_branch_id>>)
                        rels2 == rels1 \cup {<<"REFERENCES", commit_id, IssueStubId(k)>> :
                                                k \in keys}
                        st0 == [fileNodes |-> fileNodes, rels |-> rels2, raised |-> FALSE]
                        st == IF fail.at = "files"
                              THEN [st0 EXCEPT !.raised = TRUE]
                              ELSE ProcessFiles(FilesOf(sha), 1, commit_id, ids, st0, fail)
                    IN /\ persons' = r.persons
                       /\ identities' = Upsert(identities, IdentityId(author.login),
                                               [username |-> author.login,
                                                email |-> author.email, person |-> r.id])
                       /\ IF fail.at = "merge_commit"
                          THEN /\ run' = [run EXCEPT !.handled = @ \cup {sha},
                                                     !.commitPassFailed = TRUE,
                                                     !.commits_failed = @ \cup {sha},
                                                     !.writeFailed = @ \cup {sha}]
                               /\ UNCHANGED <<commitNodes, fileNodes, syncRels, authoredBy,
                                              issueVars>>
                          ELSE /\ commitNodes' = IF st.raised THEN commits1
                                                 ELSE mark_commit_fully_synced(commits1, commit_id)
                               /\ fileNodes' = st.fileNodes
                               /\ syncRels' = st.rels
                               /\ authoredBy' = IF r.id \in DOMAIN r.persons
                                                THEN authoredBy \cup {<<commit_id, r.id>>}
                                                ELSE authoredBy
                               /\ issueNodes' = issues1
                               /\ stubbedIssues' = stubbedIssues \cup
                                      {k \in keys : IssueStubId(k) \notin DOMAIN issueNodes}
                               /\ run' = [run EXCEPT !.handled = @ \cup {sha},
                                                     !.fileFailed = IF st.raised
                                                                    THEN @ \cup {sha} ELSE @,
                                                     !.commits_processed = @ \cup {sha},
                                                     !.writeFailed =
                                                         IF fail.at \in {"new_file_handler",
                                                                         "modifies"}
                                                         THEN @ \cup {sha} ELSE @]
    /\ UNCHANGED <<now, runs, remoteVars, repoNode, branchNodes, prNodes, default_branch_id,
                   prs_to_process, otherVars>>

\* Step 6 up to the loop: the pull requests updated since since_date, without
\* the closed and merged ones the store already holds.
FetchPRs(listOk) ==
    /\ pc = "prs"
    /\ Raise(IF listOk THEN 0 ELSE 1)
    /\ IF ~listOk
       THEN /\ prs_to_process' = EmptyMap
            /\ pc' = "update"
            /\ run' = [run EXCEPT !.prPassFailed = TRUE]
       ELSE LET since_date == SinceDate(repoNode.last_synced_at, now, pr_days_limit)
                recent_prs == [n \in {m \in DOMAIN remotePRs :
                                          remotePRs[m].updated_at >= since_date} |-> remotePRs[n]]
                existing_pr_numbers == get_fully_synced_pr_numbers(prNodes, syncRels)
                todo == PRsToProcess(recent_prs, existing_pr_numbers)
            IN /\ prs_to_process' = todo
               /\ pc' = IF DOMAIN todo = {} THEN "update" ELSE "pr_loop"
               /\ run' = [run EXCEPT !.prSince = since_date, !.prAt = now,
                                     !.prListed = TRUE, !.recent_prs = recent_prs,
                                     !.existing_pr_numbers = existing_pr_numbers,
                                     !.prStateBefore =
                                         [p \in DOMAIN prNodes |-> prNodes[p].state]]
    /\ UNCHANGED <<now, runs, remoteVars, storeVars, default_branch_id, commits_to_process,
                   persons, issueVars, otherVars>>

\* One iteration of the loop of Step 6: new_pull_request_handler on a pull
\* request from "dev" into "main" without author, reviews or merger.  Draft
\* pull requests are skipped; ok is FALSE when merge_pull_request raises.
HandlePR(ok) ==
    /\ pc = "pr_loop"
    /\ Raise(IF ok THEN 0 ELSE 1)
    /\ LET n == CHOOSE m \in DOMAIN prs_to_process : \A k \in DOMAIN prs_to_process :
                    \/ prs_to_process[k].updated_at < prs_to_process[m].updated_at
                    \/ prs_to_process[k].updated_at = prs_to_process[m].updated_at /\ k <= m
           pr == prs_to_process[n]
           rest == [k \in DOMAIN prs_to_process \ {n} |-> prs_to_process[k]]
           state == IF pr.merged THEN "merged"
                    ELSE IF pr.state = "closed" THEN "closed" ELSE "open"
           nodes == Upsert(prNodes, PrId(n), [number |-> n, state |-> state])
           ids == NodeIds(repoNode, branchNodes, commitNodes, fileNodes, nodes, issueNodes)
           rels1 == merge_relationship(syncRels, ids, <<"TARGETS", PrId(n), BranchId("main")>>)
           rels2 == merge_relationship(rels1, ids, <<"FROM", PrId(n), BranchId("dev")>>)
       IN /\ prs_to_process' = rest
          /\ pc' = IF DOMAIN rest = {} THEN "update" ELSE "pr_loop"
          /\ IF pr.draft
             THEN /\ ok
                  /\ run' = [run EXCEPT !.prHandled = @ \cup {n}]
                  /\ UNCHANGED <<prNodes, syncRels>>
             ELSE IF ~ok
             THEN /\ run' = [run EXCEPT !.prPassFailed = TRUE, !.prHandled = @ \cup {n}]
                  /\ UNCHANGED <<prNodes, syncRels>>
             ELSE /\ prNodes' = nodes
                  /\ syncRels' = rels2
                  /\ run' = [run EXCEPT !.prHandled = @ \cup {n}]
    /\ UNCHANGED <<now, runs, remoteVars, repoNode, branchNodes, commitNodes, fileNodes,
                   identities, authoredBy, default_branch_id, commits_to_process, persons,
                   issueVars, otherVars>>

\* Step 7: update_last_synced_at, whatever the earlier steps did; its own
\* exception is logged (ok is FALSE).  The run ends.
UpdateLastSynced(ok) ==
    /\ pc = "update"
    /\ Raise(IF ok THEN 0 ELSE 1)
    /\ pc' = "idle"
    /\ now' = now + 1
    /\ repoNode' = IF ok THEN [repoNode EXCEPT !.last_synced_at = now'] ELSE repoNode
    /\ run' = [run EXCEPT !.completed = TRUE,
                           !.stored = IF ok THEN now' ELSE @]
    /\ UNCHANGED <<runs, remoteVars, branchNodes, commitNodes, fileNodes, prNodes,
                   identities, syncRels, authoredBy, localVars, persons, issueVars, otherVars>>

\* GitHub: a commit is pushed to main.
Push(sha) ==
    /\ sha \notin DOMAIN remoteCommits
    /\ now' = now + 1
    /\ remoteCommits' = [s \in DOMAIN remoteCommits \cup {sha} |->
                            IF s = sha THEN now' ELSE remoteCommits[s]]
    /\ run' = [run EXCEPT !.changed = TRUE]
    /\ UNCHANGED <<runs, failures, remotePRs, storeVars, pc, localVars, persons, issueVars,
                   otherVars>>

\* GitHub: an open pull request is closed or merged.
ClosePR(n, merged) ==
    /\ remotePRs[n].state = "open"
    /\ now' = now + 1
    /\ remotePRs' = [remotePRs EXCEPT ![n] = [state |-> "closed", merged |-> merged,
                                              draft |-> @.draft, updated_at |-> now']]
    /\ run' = [run EXCEPT !.changed = TRUE]
    /\ UNCHANGED <<runs, failures, remoteCommits, storeVars, pc, localVars, persons,
                   issueVars, otherVars>>

\* GitHub: a pull request that was closed without being merged is reopened,
\* between two runs.
ReopenPR(n) ==
    /\ pc = "idle"
    /\ remotePRs[n].state = "closed" /\ ~remotePRs[n].merged
    /\ now < StartTime + MaxClock
    /\ now' = now + 1
    /\ remotePRs' = [remotePRs EXCEPT ![n] = [state |-> "open", merged |-> FALSE,
                                              draft |-> @.draft, updated_at |-> now']]
    /\ run' = [run EXCEPT !.changed = TRUE]
    /\ UNCHANGED <<runs, failures, remoteCommits, storeVars, pc, localVars, persons,
                   issueVars, otherVars>>

IdleSync ==
    /\ now = StartTime
    /\ remoteCommits = InitialCommits
    /\ remotePRs = InitialPRs
    /\ repoNode = [exists |-> FALSE, last_synced_at |-> 0]
    /\ branchNodes = EmptyMap
    /\ commitNodes = EmptyMap
    /\ fileNodes = {}
    /\ prNodes = EmptyMap
    /\ identities = EmptyMap
    /\ syncRels = {}
    /\ authoredBy = {}
    /\ pc = "idle"
    /\ default_branch_id = None
    /\ commits_to_process = {}
    /\ prs_to_process = EmptyMap
    /\ runs = 0
    /\ failures = 0
    /\ run = NewRun

(***************************************************************************)
(* PersonCache: batched identity links.  queue_identity_mapping collects   *)
(* IdentityMapping nodes with their MAPS_TO relationship, and              *)
(* flush_identity_mappings writes them to the store.                       *)
(***************************************************************************)
MaxQueueOps == 4

QueueLogins == {<<"u", "1">>, <<"u", "2">>}

\* The pair queue_identity_mapping builds from its arguments: the
\* IdentityMapping node and its MAPS_TO relationship to the Person.
QueuedPair(person_id, identity_id, provider, username, email, last_updated_at) ==
    [identity |-> [id |-> identity_id, provider |-> provider, username |-> username,
                   email |-> IF TruthyS(email) THEN email ELSE << >>,
                   last_updated_at |-> last_updated_at],
     relationship |-> [type |-> "MAPS_TO", from_id |-> identity_id, to_id |-> person_id]]

\* The keys of _pending_identities.
PendingIds(pending) == {pending[i].identity.id : i \in 1..Len(pending)}

\* A queue that keeps one pending record per person.
QueueOnePerPerson(pending, flushed, person_id, identity_id, provider, username, email, last_updated_at) ==
    IF identity_id \in PendingIds(pending) THEN pending
    ELSE IF person_id \in flushed
            \/ \E i \in 1..Len(pending) : pending[i].relationship.to_id = person_id
    THEN pending
    ELSE Append(pending, QueuedPair(person_id, identity_id, provider, username, email,
                                    last_updated_at))

\* A queue that forgets which persons were flushed.
QueueKeepsFirstOnly(pending, flushed, person_id, identity_id, provider, username, email, last_updated_at) ==
    IF identity_id \in PendingIds(pending) THEN pending
    ELSE Append(pending, QueuedPair(person_id, identity_id, provider, username, email,
                                    last_updated_at))

\* A queue that replaces the pending record of an identity_id.
QueueOverwrites(pending, flushed, person_id, identity_id, provider, username, email, last_updated_at) ==
    LET pair == QueuedPair(person_id, identity_id, provider, username, email,
                           last_updated_at)
    IN IF person_id \in flushed THEN pending
       ELSE IF identity_id \in PendingIds(pending)
       THEN [i \in 1..Len(pending) |->
                IF pending[i].identity.id = identity_id THEN pair ELSE pending[i]]
       ELSE Append(pending, pair)

\* queue_identity_mapping(...) on the pending map and the flushed persons:
\* the pending map after the call.
queue_identity_mapping(pending, flushed, person_id, identity_id, provider, username, email, last_updated_at) ==
    IF identity_id \in PendingIds(pending) THEN pending
    ELSE IF person_id \in flushed THEN pending
    ELSE Append(pending, QueuedPair(person_id, identity_id, provider, username, email,
                                    last_updated_at))

\* merge_identity_mapping(session, identity, relationships=[relationship]):
\* the node is upserted by its id with its link to the Person.
merge_identity_mapping(nodes, identity, relationship) ==
    Upsert(nodes, identity.id, [username |-> identity.username, email |-> identity.email,
                                person |-> relationship.to_id])

\* A loop that leaves out the last record.
RECURSIVE FlushLoopStopsEarly(_, _, _, _)
FlushLoopStopsEarly(pending, i, last, st) ==
    IF i >= last THEN st
    ELSE FlushLoopStopsEarly(pending, i + 1, last,
                   [nodes |-> merge_identity_mapping(st.nodes, pending[i].identity,
                                                     pending[i].relationship),
                    flushed |-> st.flushed \cup {pending[i].relationship.to_id},
                    written |-> Append(st.written, pending[i])])

\* The loop of flush_identity_mappings over pending[i..last]: the store, the
\* flushed persons and the pairs given to merge_identity_mapping after it.
RECURSIVE FlushLoop(_, _, _, _)
FlushLoop(pending, i, last, st) ==
    IF i > last THEN st
    ELSE FlushLoop(pending, i + 1, last,
                   [nodes |-> merge_identity_mapping(st.nodes, pending[i].identity,
                                                     pending[i].relationship),
                    flushed |-> st.flushed \cup {pending[i].relationship.to_id},
                    written |-> Append(st.written, pending[i])])


\* The synchronisation variables the PersonCache does not write.
syncVarsButIdentities == <<now, remoteVars, repoNode, branchNodes, commitNodes, fileNodes,
                           prNodes, syncRels, authoredBy, pc, localVars, runs, failures,
                           run>>

\* A caller queues one identity link.
QueueIdentityMapping(person_id, identity_id, provider, username, email, last_updated_at) ==
    /\ queue_ops < MaxQueueOps
    /\ queue_ops' = queue_ops + 1
    /\ pending_identities' = queue_identity_mapping(pending_identities, flushed_persons,
                                                    person_id, identity_id, provider,
                                                    username, email, last_updated_at)
    /\ lastQueue' = [n |-> queue_ops + 1, person_id |-> person_id,
                     identity_id |-> identity_id,
                     was_pending |-> identity_id \in PendingIds(pending_identities),
                     was_flushed |-> person_id \in flushed_log,
                     was_written |-> person_id \in written_log,
                     pair |-> QueuedPair(person_id, identity_id, provider, username,
                                         email, last_updated_at)]
    /\ first_queued' = IF /\ identity_id \notin PendingIds(pending_identities)
                          /\ identity_id \in PendingIds(pending_identities')
                       THEN Upsert(first_queued, identity_id, lastQueue'.pair)
                       ELSE first_queued
    /\ UNCHANGED <<flushed_persons, lastFlush, flushed_log, written_log, identities>>
    /\ UNCHANGED <<stubVars, idVars, syncVarsButIdentities, accessVars, retryVars, jiraVars>>

\* A flush that takes every record it has written off the pending map, also
\* when a later write raises.
FlushForgetsWritten(failAt) ==
    /\ queue_ops < MaxQueueOps
    /\ queue_ops' = queue_ops + 1
    /\ failAt \in 0..Len(pending_identities)
    /\ LET last == IF failAt = 0 THEN Len(pending_identities) ELSE failAt - 1
           st == FlushLoop(pending_identities, 1, last,
                           [nodes |-> identities, flushed |-> flushed_persons,
                            written |-> << >>])
           persons_written == {st.written[i].relationship.to_id : i \in 1..Len(st.written)}
       IN /\ identities' = st.nodes
          /\ flushed_persons' = st.flushed
          /\ pending_identities' = SubSeq(pending_identities, last + 1,
                                          Len(pending_identities))
          /\ lastFlush' = [n |-> queue_ops + 1, before |-> pending_identities,
                           written |-> st.written,
                           raised |-> failAt # 0]
          /\ written_log' = written_log \cup persons_written
          /\ flushed_log' = IF failAt # 0 THEN flushed_log
                             ELSE flushed_log \cup persons_written
    /\ UNCHANGED <<lastQueue, first_queued>>
    /\ UNCHANGED <<stubVars, idVars, syncVarsButIdentities, accessVars, retryVars, jiraVars>>

\* A caller flushes.  failAt = 0: every write succeeds; failAt = k: the k-th
\* merge_identity_mapping raises and the exception leaves the method.
FlushIdentityMappings(failAt) ==
    /\ queue_ops < MaxQueueOps
    /\ queue_ops' = queue_ops + 1
    /\ failAt \in 0..Len(pending_identities)
    /\ LET last == IF failAt = 0 THEN Len(pending_identities) ELSE failAt - 1
           st == FlushLoop(pending_identities, 1, last,
                           [nodes |-> identities, flushed |-> flushed_persons,
                            written |-> << >>])
           persons_written == {st.written[i].relationship.to_id : i \in 1..Len(st.written)}
       IN /\ identities' = st.nodes
          /\ flushed_persons' = st.flushed
          /\ pending_identities' = IF failAt = 0 THEN << >> ELSE pending_identities
          /\ lastFlush' = [n |-> queue_ops + 1, before |-> pending_identities,
                           written |-> st.written,
                           raised |-> failAt # 0]
          /\ written_log' = written_log \cup persons_written
          /\ flushed_log' = IF failAt # 0 THEN flushed_log
                             ELSE flushed_log \cup persons_written
    /\ UNCHANGED <<lastQueue, first_queued>>
    /\ UNCHANGED <<stubVars, idVars, syncVarsButIdentities, accessVars, retryVars, jiraVars>>

IdleQueue ==
    /\ pending_identities = << >>
    /\ flushed_persons = {}
    /\ queue_ops = 0
    /\ lastQueue = [n |-> 0, person_id |-> NoneS, identity_id |-> NoneS,
                    was_pending |-> FALSE, was_flushed |-> FALSE, was_written |-> FALSE,
                    pair |-> None]
    /\ lastFlush = [n |-> 0, before |-> << >>, written |-> << >>, raised |-> FALSE]
    /\ first_queued = EmptyMap
    /\ flushed_log = {}
    /\ written_log = {}

(***************************************************************************)
(* retry_with_backoff(func, max_retries, initial_delay): one call, func    *)
(* behaving as a script prescribes.  Messages are character sequences.     *)
(***************************************************************************)
\* retry_with_backoff is called with max_retries up to MaxRetriesArg.
MaxRetriesArg == 5
\* def retry_with_backoff(func, max_retries=5, initial_delay=1)
DefaultMaxRetries == 5
DefaultInitialDelay == 1

\* sub in s
Contains(s, sub) ==
    \E i \in 0..Len(s) : /\ i + Len(sub) <= Len(s)
                         /\ \A j \in 1..Len(sub) : s[i + j] = sub[j]

\* 'rate limit' in error_str or 'api rate limit exceeded' in error_str
IsRateLimit(error_str) ==
    \/ Contains(error_str, <<"r", "a", "t", "e", " ", "l", "i", "m", "i", "t">>)
    \/ Contains(error_str, <<"a", "p", "i", " ", "r", "a", "t", "e", " ", "l", "i", "m", "i",
                             "t", " ", "e", "x", "c", "e", "e", "d", "e", "d">>)

\* f"Max retries exceeded due to rate limiting: {str(e)}"
MaxRetriesExceeded(e) == <<"Max retries exceeded due to rate limiting: ">> \o e

Running == [kind |-> "running", text |-> << >>]

\* try: return func()
RetryTry ==
    /\ retry_pc = "try"
    /\ attempt < max_retries
    /\ calls' = calls + 1
    /\ IF func[calls + 1].raises
       THEN /\ caught' = func[calls + 1].text
            /\ retry_pc' = "except"
            /\ UNCHANGED outcome
       ELSE /\ outcome' = [kind |-> "returned", text |-> func[calls + 1].text]
            /\ retry_pc' = "done"
            /\ UNCHANGED caught
    /\ UNCHANGED <<func, max_retries, initial_delay, delay, attempt, sleeps>>
    /\ UNCHANGED <<stubVars, idVars, syncVars, queueVars, accessVars, jiraVars>>

\* An except clause that sleeps the same time before every retry.
RetryExceptConstantDelay ==
    /\ retry_pc = "except"
    /\ IF IsRateLimit(StrLower(caught))
       THEN IF attempt + 1 < max_retries
            THEN /\ sleeps' = Append(sleeps, delay)
                 /\ delay' = delay
                 /\ attempt' = attempt + 1
                 /\ retry_pc' = "try"
                 /\ UNCHANGED outcome
            ELSE /\ outcome' = [kind |-> "exhausted", text |-> MaxRetriesExceeded(caught)]
                 /\ retry_pc' = "done"
                 /\ UNCHANGED <<sleeps, delay, attempt>>
       ELSE /\ outcome' = [kind |-> "reraised", text |-> caught]
            /\ retry_pc' = "done"
            /\ UNCHANGED <<sleeps, delay, attempt>>
    /\ UNCHANGED <<func, max_retries, initial_delay, caught, calls>>
    /\ UNCHANGED <<stubVars, idVars, syncVars, queueVars, accessVars, jiraVars>>

\* An except clause that sleeps before it gives up.
RetryExceptSleepsBeforeGivingUp ==
    /\ retry_pc = "except"
    /\ IF IsRateLimit(StrLower(caught))
       THEN IF attempt + 1 < max_retries
            THEN /\ sleeps' = Append(sleeps, delay)
                 /\ delay' = delay * 2
                 /\ attempt' = attempt + 1
                 /\ retry_pc' = "try"
                 /\ UNCHANGED outcome
            ELSE /\ sleeps' = Append(sleeps, delay)
                 /\ outcome' = [kind |-> "exhausted", text |-> MaxRetriesExceeded(caught)]
                 /\ retry_pc' = "done"
                 /\ UNCHANGED <<delay, attempt>>
       ELSE /\ outcome' = [kind |-> "reraised", text |-> caught]
            /\ retry_pc' = "done"
            /\ UNCHANGED <<sleeps, delay, attempt>>
    /\ UNCHANGED <<func, max_retries, initial_delay, caught, calls>>
    /\ UNCHANGED <<stubVars, idVars, syncVars, queueVars, accessVars, jiraVars>>

\* An except clause that retries after every exception.
RetryExceptRetriesAll ==
    /\ retry_pc = "except"
    /\ IF attempt + 1 < max_retries
       THEN /\ sleeps' = Append(sleeps, delay)
            /\ delay' = delay * 2
            /\ attempt' = attempt + 1
            /\ retry_pc' = "try"
            /\ UNCHANGED outcome
       ELSE /\ outcome' = IF IsRateLimit(StrLower(caught))
                          THEN [kind |-> "exhausted", text |-> MaxRetriesExceeded(caught)]
                          ELSE [kind |-> "reraised", text |-> caught]
            /\ retry_pc' = "done"
            /\ UNCHANGED <<sleeps, delay, attempt>>
    /\ UNCHANGED <<func, max_retries, initial_delay, caught, calls>>
    /\ UNCHANGED <<stubVars, idVars, syncVars, queueVars, accessVars, jiraVars>>

\* except Exception as e: ...
RetryExcept ==
    /\ retry_pc = "except"
    /\ IF IsRateLimit(StrLower(caught))
       THEN IF attempt + 1 < max_retries
            THEN /\ sleeps' = Append(sleeps, delay)
                 /\ delay' = delay * 2
                 /\ attempt' = attempt + 1
                 /\ retry_pc' = "try"
                 /\ UNCHANGED outcome
            ELSE /\ outcome' = [kind |-> "exhausted", text |-> MaxRetriesExceeded(caught)]
                 /\ retry_pc' = "done"
                 /\ UNCHANGED <<sleeps, delay, attempt>>
       ELSE /\ outcome' = [kind |-> "reraised", text |-> caught]
            /\ retry_pc' = "done"
            /\ UNCHANGED <<sleeps, delay, attempt>>
    /\ UNCHANGED <<func, max_retries, initial_delay, caught, calls>>
    /\ UNCHANGED <<stubVars, idVars, syncVars, queueVars, accessVars, jiraVars>>

\* The loop ends without a return or a raise:
\* raise Exception(f"Failed after {max_retries} attempts")
RetryFallThrough ==
    /\ retry_pc = "try"
    /\ attempt >= max_retries
    /\ outcome' = [kind |-> "failed", text |-> <<"Failed after ", max_retries, " attempts">>]
    /\ retry_pc' = "done"
    /\ UNCHANGED <<func, max_retries, initial_delay, delay, attempt, caught, calls, sleeps>>
    /\ UNCHANGED <<stubVars, idVars, syncVars, queueVars, accessVars, jiraVars>>

\* No call of retry_with_backoff is under way.
IdleRetry ==
    /\ func = << >>
    /\ max_retries = 0
    /\ initial_delay = 0
    /\ delay = 0
    /\ attempt = 0
    /\ retry_pc = "done"
    /\ caught = NoneS
    /\ calls = 0
    /\ sleeps = << >>
    /\ outcome = Running

(***************************************************************************)
(* The Jira loader's epics: main hands one set processed_epics to the      *)
(* initiative handlers, which handle their child epics, and to the loop    *)
(* over all epics that follows.  Epics are named by their Jira issue id.   *)
(***************************************************************************)
\* for ... in epics: new_epic_handler(session, epics[i], ...,
\* processed_epics=processed_epics), the handler catching its own exceptions.
\* An epic of `failing` raises after the handler has marked it processed (in
\* building its relationships or in merge_epic).
RECURSIVE EpicLoop(_, _, _, _)
EpicLoop(st, epics, i, failing) ==
    IF i > Len(epics) THEN st
    ELSE LET issue_id == epics[i]
         IN EpicLoop(IF issue_id \in st.processed_epics
                     THEN [st EXCEPT !.skipped = @ \cup {issue_id}]
                     ELSE IF issue_id \in failing
                     THEN [st EXCEPT !.processed_epics = @ \cup {issue_id},
                                     !.failed = @ \cup {issue_id}]
                     ELSE [st EXCEPT !.processed_epics = @ \cup {issue_id},
                                     !.nodes = @ \cup {issue_id}],
                     epics, i + 1, failing)

\* new_initiative_handler on one initiative, from the listing of its child
\* epics on; listOk is FALSE when the handler raises before it or the JQL
\* query does.
NewInitiativeHandler(listOk, child_epics, failing) ==
    /\ jira_pc = "initiatives"
    /\ failing \subseteq {child_epics[i] : i \in 1..Len(child_epics)}
    /\ LET st == EpicLoop([processed_epics |-> processed_epics, nodes |-> epicNodes,
                           skipped |-> {}, failed |-> {}],
                          IF listOk THEN child_epics ELSE << >>, 1, failing)
       IN /\ processed_epics' = st.processed_epics
          /\ epicNodes' = st.nodes
          /\ lastEpicPass' = [pass |-> "children", skipped |-> st.skipped,
                              failed |-> st.failed]
    /\ UNCHANGED jira_pc
    /\ UNCHANGED <<stubVars, idVars, syncVars, queueVars, accessVars, retryVars>>

\* main after the initiatives: the loop over the epics fetch_epics returns.
ProcessEpics(epics, failing) ==
    /\ jira_pc = "initiatives"
    /\ jira_pc' = "done"
    /\ failing \subseteq {epics[i] : i \in 1..Len(epics)}
    /\ LET st == EpicLoop([processed_epics |-> processed_epics, nodes |-> epicNodes,
                           skipped |-> {}, failed |-> {}], epics, 1, failing)
       IN /\ processed_epics' = st.processed_epics
          /\ epicNodes' = st.nodes
          /\ lastEpicPass' = [pass |-> "epics", skipped |-> st.skipped,
                              failed |-> st.failed]
    /\ UNCHANGED <<stubVars, idVars, syncVars, queueVars, accessVars, retryVars>>

\* main has created processed_epics and is about to handle the initiatives;
\* the store holds no Epic node.
IdleJira ==
    /\ epicNodes = {}
    /\ processed_epics = {}
    /\ jira_pc = "initiatives"
    /\ lastEpicPass = [pass |-> None, skipped |-> {}, failed |-> {}]

(***************************************************************************)
(* Collaborators and team members: Step 2 of process_repo_ with            *)
(* new_user_handler, and new_team_handler with its member loop, called as  *)
(* process_repo_ calls it (no processed_users_cache).  Both skip the       *)
(* identity refresh of users whose IdentityMapping is fresh.  The store    *)
(* calls succeed; listing the collaborators or the members may raise.      *)
(***************************************************************************)
\* The clock moves at most this many days.
MaxAccessDays == 8
\* int(os.getenv('IDENTITY_REFRESH_DAYS', '7'))
refresh_days == 7


\* GitHub users (type 'User'): one with a public email, one without.  No two
\* of them share an email, so the email query of get_or_create_person finds
\* at most one Person.
GithubUsers ==
    {[login |-> <<"u", "1">>, name |-> "N1", email |-> <<"a", "@", "x">>],
     [login |-> <<"u", "2">>, name |-> "N1", email |-> NoneS]}

\* The lists get_collaborators() and get_members() return.
UserLists ==
    {<< >>} \cup {<<u>> : u \in GithubUsers}
            \cup {<<u, v>> : <<u, v>> \in {p \in GithubUsers \X GithubUsers : p[1] # p[2]}}


\* identity_id = f"identity_github_{github_login}"
IdentityGithubId(github_login) ==
    <<"i", "d", "e", "n", "t", "i", "t", "y", "_", "g", "i", "t", "h", "u", "b", "_">>
        \o github_login

\* merge_identity_mapping(session, identity, relationships=[maps_to]) with the
\* node's timestamp: every property is set, last_updated_at to null (0) when
\* the identity carries none, as the bulk query of bulk_user_handler does.
merge_dated_identity_mapping(nodes, identity, to_id) ==
    Upsert(nodes, identity.id,
           [username |-> identity.username, email |-> identity.email,
            last_updated_at |-> identity.last_updated_at, person |-> to_id])

\* i.last_updated_at IS NOT NULL
\*   AND i.last_updated_at >= datetime() - duration({days: $refresh_days})
RecentUsername(nodes, login, t) ==
    /\ IdentityGithubId(login) \in DOMAIN nodes
    /\ nodes[IdentityGithubId(login)].last_updated_at # 0
    /\ nodes[IdentityGithubId(login)].last_updated_at + refresh_days >= t

\* A filter that lets every user through.
EverybodyNeedsRefresh(nodes, github_users, t) == github_users

\* get_users_needing_refresh(session, github_users, refresh_days): users_to_process
get_users_needing_refresh(nodes, github_users, t) ==
    LET NotRecent(u) == ~RecentUsername(nodes, u.login, t)
    IN SelectSeq(github_users, NotRecent)

\* get_collaborators_needing_refresh(session, collaborators, refresh_days):
\* collaborators_to_process
get_collaborators_needing_refresh(nodes, collaborators, t) ==
    LET NotRecent(c) == ~RecentUsername(nodes, c.login, t)
    IN SelectSeq(collaborators, NotRecent)


\* The store as the handlers below pass it along, with the writes made:
\* [persons, identities, rels, person_writes, identity_writes].
AccessStore(ps, ids, rels) ==
    [persons |-> ps, identities |-> ids, rels |-> rels,
     person_writes |-> {}, identity_writes |-> {}]

\* process_github_user(session, github_user, None) at time t: the store after
\* it and the person_id it returns.
process_github_user(st, github_user, t) ==
    LET github_login == github_user.login
        github_email == IF TruthyS(github_user.email) THEN StrLower(github_user.email)
                        ELSE << >>
        r == CHOOSE x \in get_or_create_person(st.persons,
                              IF TruthyS(github_email) THEN github_email ELSE NoneS,
                              github_user.name, GitHubProvider, github_login) : TRUE
        identity == [id |-> IdentityGithubId(github_login), username |-> github_login,
                     email |-> github_email, last_updated_at |-> t]
    IN IF r.id = NoneS
       THEN [st |-> st, person_id |-> NoneS]
       ELSE [st |-> [st EXCEPT !.persons = r.persons,
                               !.identities = merge_dated_identity_mapping(@, identity, r.id),
                               !.person_writes = IF r.wrote THEN @ \cup {r.id} ELSE @,
                               !.identity_writes = @ \cup {github_login}],
             person_id |-> r.id]

\* new_user_handler(session, collaborator, repo_id, repo_created_at): the store
\* after it.  The IdentityMapping it builds carries no last_updated_at.
new_user_handler(st, collaborator, repo_id) ==
    LET github_login == collaborator.login
        github_email == IF TruthyS(collaborator.email) THEN collaborator.email ELSE << >>
        r == CHOOSE x \in get_or_create_person(st.persons,
                              IF TruthyS(github_email) THEN github_email ELSE NoneS,
                              collaborator.name, GitHubProvider, github_login) : TRUE
        identity == [id |-> IdentityGithubId(github_login), username |-> github_login,
                     email |-> github_email, last_updated_at |-> 0]
    IN IF r.id = NoneS
       THEN st
       ELSE [st EXCEPT !.persons = r.persons,
                       !.identities = merge_dated_identity_mapping(@, identity, r.id),
                       !.person_writes = IF r.wrote THEN @ \cup {r.id} ELSE @,
                       !.identity_writes = @ \cup {github_login},
                       !.rels = @ \cup {<<"COLLABORATOR", r.id, repo_id>>}]

\* for collab in collaborators_to_process: new_user_handler(...)
RECURSIVE CollaboratorsLoop(_, _, _, _)
CollaboratorsLoop(st, collaborators_to_process, i, repo_id) ==
    IF i > Len(collaborators_to_process) THEN st
    ELSE CollaboratorsLoop(new_user_handler(st, collaborators_to_process[i], repo_id),
                           collaborators_to_process, i + 1, repo_id)

\* MATCH (i:IdentityMapping {provider: 'GitHub', username: $username})
\*       -[:MAPS_TO]->(p:Person) RETURN p.id
MappedPerson(nodes, github_login) ==
    IF IdentityGithubId(github_login) \in DOMAIN nodes
    THEN nodes[IdentityGithubId(github_login)].person
    ELSE NoneS

\* for member in member_list: ... of new_team_handler, from member i on.
RECURSIVE MembersLoop(_, _, _, _, _, _)
MembersLoop(st, member_list, i, members_needing_refresh, team_id, t) ==
    IF i > Len(member_list) THEN st
    ELSE LET member == member_list[i]
             needs_refresh == \E j \in 1..Len(members_needing_refresh) :
                                 members_needing_refresh[j] = member
             found == MappedPerson(st.identities, member.login)
             p == IF needs_refresh \/ found = NoneS
                  THEN process_github_user(st, member, t)
                  ELSE [st |-> st, person_id |-> found]
             linked == IF p.person_id = NoneS
                       THEN p.st
                       ELSE [p.st EXCEPT !.rels = @ \cup {<<"MEMBER_OF", p.person_id, team_id>>}]
         IN MembersLoop(linked, member_list, i + 1, members_needing_refresh, team_id, t)


idVarsButPersons == <<email_cache, provider_cache, cache_hits, cache_misses, db_queries,
                      lastCall, returned, returnedPair, pc_writes, refPersons, agree>>

\* The users of a list whose IdentityMapping is fresh at time t.
RecentLogins(nodes, users, t) ==
    {users[i].login : i \in {j \in 1..Len(users) : RecentUsername(nodes, users[j].login, t)}}

\* Step 2 of process_repo_ for the repository repo_id whose collaborators of type
\* 'User' are collaborator_list (fewer than the bulk threshold);
\* get_collaborators() raises when ~listOk.
CollaboratorsStep(repo_id, collaborator_list, listOk) ==
    LET collaborators_to_process ==
            get_collaborators_needing_refresh(githubIdentities, collaborator_list, now)
        st == IF listOk
              THEN CollaboratorsLoop(AccessStore(persons, githubIdentities, stubRels),
                                     collaborators_to_process, 1, repo_id)
              ELSE AccessStore(persons, githubIdentities, stubRels)
    IN /\ persons' = st.persons
       /\ githubIdentities' = st.identities
       /\ stubRels' = st.rels
       /\ lastAccess' = [op |-> "collaborators", target |-> repo_id, listed |-> listOk,
                         recent |-> RecentLogins(githubIdentities, collaborator_list, now),
                         person_writes |-> st.person_writes,
                         identity_writes |-> st.identity_writes, at |-> now]
       /\ UNCHANGED <<issueNodes, teamNodes, stubbedIssues, authIssues, stubbedTeams,
                      authTeams, lastStub, edgeCount>>
       /\ UNCHANGED <<idVarsButPersons, syncVars, queueVars, retryVars, jiraVars>>

\* new_team_handler(session, team, repo_id, repo_created_at) for a team whose
\* members are member_list; team.get_members() raises when ~membersOk.
NewTeamHandlerMembers(team, member_list, membersOk) ==
    LET team_id == TeamGithubId(team.slug)
        members_needing_refresh ==
            get_users_needing_refresh(githubIdentities, member_list, now)
        start == AccessStore(persons, githubIdentities,
                             stubRels \cup {<<"COLLABORATOR", team_id, RepoId>>})
        st == IF membersOk
              THEN MembersLoop(start, member_list, 1, members_needing_refresh, team_id, now)
              ELSE start
    IN /\ teamNodes' = merge_team(teamNodes, [id |-> team_id, name |-> team.name])
       /\ authTeams' = Upsert(authTeams, team.name, team.name)
       /\ persons' = st.persons
       /\ githubIdentities' = st.identities
       /\ stubRels' = st.rels
       /\ lastAccess' = [op |-> "team", target |-> team_id, listed |-> membersOk,
                         recent |-> RecentLogins(githubIdentities, member_list, now),
                         person_writes |-> st.person_writes,
                         identity_writes |-> st.identity_writes, at |-> now]
       /\ UNCHANGED <<issueNodes, stubbedIssues, authIssues, stubbedTeams, lastStub,
                      edgeCount>>
       /\ UNCHANGED <<idVarsButPersons, syncVars, queueVars, retryVars, jiraVars>>

\* No relationship the bulk write issued is held more than MaxCopies times.
MaxCopies == 3

\* One row of the relationship write of _bulk_merge_nodes: with APOC,
\* apoc.create.relationship creates a relationship; without it the fallback
\* merge_relationship merges one.
WriteEdge(edges, e, apoc) ==
    LET had == IF e \in DOMAIN edges THEN edges[e] ELSE 0
    IN [x \in DOMAIN edges \cup {e} |->
           IF x # e THEN edges[x]
           ELSE IF apoc THEN had + 1
           ELSE IF had = 0 THEN 1 ELSE had]

\* bulk_user_handler's batch from collaborator i on, and the merge of what it
\* prepared: st = [cache, persons, identities, edges].
RECURSIVE BulkBatch(_, _, _, _, _, _)
BulkBatch(st, batch, i, repo_id, t, apoc) ==
    IF i > Len(batch) THEN st
    ELSE LET github_login == batch[i].login
             github_email == IF TruthyS(batch[i].email) THEN StrLower(batch[i].email)
                             ELSE << >>
             r == CHOOSE x \in PersonCache_get_or_create_person(st.cache, st.persons,
                                   IF TruthyS(github_email) THEN github_email ELSE NoneS,
                                   batch[i].name, GitHubProvider, github_login) : TRUE
             identity == [id |-> IdentityGithubId(github_login), username |-> github_login,
                          email |-> github_email, last_updated_at |-> t]
             next == IF r.id = NoneS
                     THEN [st EXCEPT !.cache = r.cache]
                     ELSE [cache |-> r.cache, persons |-> r.persons,
                           identities |-> merge_dated_identity_mapping(st.identities,
                                                                       identity, r.id),
                           edges |-> WriteEdge(WriteEdge(st.edges,
                                                         <<"MAPS_TO", identity.id, r.id>>, apoc),
                                               <<"COLLABORATOR", r.id, repo_id>>, apoc)]
         IN BulkBatch(next, batch, i + 1, repo_id, t, apoc)

\* bulk_user_handler(session, collaborators, repo_id, repo_created_at) with a
\* PersonCache of its own, for collaborators that fit one batch; apoc tells
\* whether the store has the APOC procedures.
BulkUserHandler(collaborators, repo_id, apoc) ==
    LET st == BulkBatch([cache |-> [email_cache |-> EmptyMap, provider_cache |-> EmptyMap,
                                    cache_hits |-> 0, cache_misses |-> 0, db_queries |-> 0],
                         persons |-> persons, identities |-> githubIdentities,
                         edges |-> edgeCount],
                        collaborators, 1, repo_id, now, apoc)
    IN /\ \A e \in DOMAIN edgeCount : edgeCount[e] < MaxCopies
       /\ persons' = st.persons
       /\ githubIdentities' = st.identities
       /\ edgeCount' = st.edges
       /\ UNCHANGED <<idVarsButPersons, lastAccess, stubVars, syncVars, queueVars,
                      retryVars, jiraVars>>

\* A user object that gives identity resolution nothing to build an id from:
\* no login and no public email.
AnonymousUser == [login |-> << >>, name |-> "N1", email |-> NoneS]

\* get_or_create_commit_author(session, commit_author, repo_created_at), the
\* store calls succeeding.  commit_author is a user object (has_login) or the
\* name and email of the git commit.
GetOrCreateCommitAuthor(commit_author) ==
    LET at == IF \E k \in 1..Len(commit_author.email) : commit_author.email[k] = "@"
              THEN CHOOSE k \in 1..Len(commit_author.email) :
                      /\ commit_author.email[k] = "@"
                      /\ \A j \in 1..(k - 1) : commit_author.email[j] # "@"
              ELSE Len(commit_author.email) + 1
        github_email == IF TruthyS(commit_author.email) THEN commit_author.email ELSE << >>
        github_login == IF commit_author.has_login THEN commit_author.login
                        ELSE IF TruthyS(github_email) THEN SubSeq(github_email, 1, at - 1)
                        ELSE StrReplace(StrLower(commit_author.name), " ", "_")
        github_name == IF TruthyS(commit_author.name) THEN commit_author.name
                       ELSE IF commit_author.has_login THEN github_login
                       ELSE <<"U", "n", "k", "n", "o", "w", "n">>
        identity == [id |-> IdentityGithubId(github_login), username |-> github_login,
                     email |-> github_email, last_updated_at |-> 0]
    IN \E r \in get_or_create_person(persons,
                                     IF TruthyS(github_email) THEN github_email ELSE NoneS,
                                     github_name, GitHubProvider, github_login) :
          /\ persons' = r.persons
          /\ githubIdentities' = merge_dated_identity_mapping(githubIdentities, identity, r.id)
          /\ lastAccess' = [op |-> "commit_author", target |-> r.id, listed |-> TRUE,
                            recent |-> {},
                            person_writes |-> IF r.wrote THEN {r.id} ELSE {},
                            identity_writes |-> {github_login}, at |-> now]
          /\ UNCHANGED <<idVarsButPersons, edgeCount, stubVars, syncVars, queueVars,
                         retryVars, jiraVars>>

\* Days pass between two runs of the loader.
PassDays(d) ==
    /\ now + d <= StartTime + MaxAccessDays
    /\ now' = now + d
    /\ UNCHANGED <<remoteVars, repoNode, branchNodes, commitNodes, fileNodes, prNodes,
                   identities, syncRels, authoredBy, pc, localVars, runs, failures, run>>
    /\ UNCHANGED <<stubVars, idVars, queueVars, accessVars, retryVars, jiraVars>>

IdleAccess ==
    /\ githubIdentities = EmptyMap
    /\ edgeCount = EmptyMap
    /\ lastAccess = [op |-> None, target |-> None, listed |-> FALSE, recent |-> {},
                     person_writes |-> {}, identity_writes |-> {}, at |-> 0]

\* Nothing has run: the store is empty and no call is under way.
Init == IdleStub /\ IdleId /\ IdleSync /\ IdleQueue /\ IdleAccess /\ IdleRetry /\ IdleJira

(***************************************************************************)
(* SpecAccess: collaborator steps and team handlers of successive runs on  *)
(* one store, days apart.                                                  *)
(***************************************************************************)

NextAccess ==
    \/ \E collaborator_list \in UserLists, listOk \in BOOLEAN :
          CollaboratorsStep(RepoId, collaborator_list, listOk)
    \/ \E team \in {t \in GithubTeams : t.slug = <<"g">>}, member_list \in UserLists,
          membersOk \in BOOLEAN :
          NewTeamHandlerMembers(team, member_list, membersOk)
    \/ \E d \in {4, 8} : PassDays(d)

SpecAccess == Init /\ [][NextAccess]_vars

(***************************************************************************)
(* SpecBulk: the bulk collaborator write issued again and again for the    *)
(* repository, on stores with and without APOC.                            *)
(***************************************************************************)
NextBulk ==
    \/ \E collaborators \in UserLists, apoc \in BOOLEAN :
          BulkUserHandler(collaborators, RepoId, apoc)
    \/ \E d \in {4, 8} : PassDays(d)

SpecBulk == Init /\ [][NextBulk]_vars

(***************************************************************************)
(* SpecCallers: the handlers that resolve a GitHub user and then write its *)
(* identity link and relationships, given users with and without an        *)
(* identifier.                                                             *)
(***************************************************************************)
NextCallers ==
    \/ \E u \in GithubUsers \cup {AnonymousUser} : CollaboratorsStep(RepoId, <<u>>, TRUE)
    \/ \E team \in {t \in GithubTeams : t.slug = <<"g">>},
          u \in GithubUsers \cup {AnonymousUser} : NewTeamHandlerMembers(team, <<u>>, TRUE)
    \/ \E commit_author \in
            {[has_login |-> TRUE, login |-> u.login, name |-> <<"N">>, email |-> u.email] :
                u \in GithubUsers \cup {AnonymousUser}}
            \cup {[has_login |-> FALSE, login |-> NoneS, name |-> <<"A", " ", "P">>,
                   email |-> e] : e \in {<< >>, <<"a", "@", "x">>}} :
          GetOrCreateCommitAuthor(commit_author)
    \/ \E d \in {4, 8} : PassDays(d)

SpecCallers == Init /\ [][NextCallers]_vars

(***************************************************************************)
(* SpecJira: one run of the Jira loader's main over initiatives and epics. *)
(***************************************************************************)
NextJira ==
    \/ \E listOk \in BOOLEAN,
          child_epics \in {<< >>, <<"e1">>, <<"e2">>, <<"e1", "e2">>, <<"e3">>},
          failing \in SUBSET {"e1", "e2", "e3"} :
            NewInitiativeHandler(listOk, child_epics, failing)
    \/ \E epics \in {<<"e1", "e2", "e3">>, <<"e2", "e3">>, <<"e3">>},
          failing \in SUBSET {"e1", "e2", "e3"} : ProcessEpics(epics, failing)

SpecJira == Init /\ [][NextJira]_vars

(***************************************************************************)
(* SpecRetry: one call of retry_with_backoff from its first line on, for   *)
(* every script of func and every argument in the bounds.                  *)
(***************************************************************************)
InitRetry ==
    /\ IdleStub /\ IdleId /\ IdleSync /\ IdleQueue /\ IdleAccess /\ IdleJira
    /\ max_retries \in 0..MaxRetriesArg
    /\ initial_delay \in {DefaultInitialDelay, 3}
    \* what one invocation of func does: it returns text, or raises an
    \* exception whose str() is text
    /\ func \in [1..max_retries ->
          {[raises |-> FALSE, text |-> <<"v">>],
           [raises |-> TRUE, text |-> <<"R", "a", "t", "e", " ", "L", "i", "m", "i", "t">>],
           [raises |-> TRUE, text |-> <<"r", "a", "t", "e", "l", "i", "m", "i", "t">>],
           [raises |-> TRUE, text |-> <<"t", "i", "m", "e", "o", "u", "t">>]}]
    /\ delay = initial_delay
    /\ attempt = 0
    /\ retry_pc = "try"
    /\ caught = NoneS
    /\ calls = 0
    /\ sleeps = << >>
    /\ outcome = Running

NextRetry == RetryTry \/ RetryExcept \/ RetryFallThrough

SpecRetry == InitRetry /\ [][NextRetry]_vars

\* The interpreter goes on executing the call while it has a next statement.
SpecRetryLive == SpecRetry /\ WF_vars(NextRetry)

(***************************************************************************)
(* SpecQueue: one PersonCache, its callers queueing identity links and     *)
(* flushing in any order.                                                  *)
(***************************************************************************)

NextQueue ==
    \/ \E person_id \in {CanonicalPersonId(<<"a", "@", "x">>, NoneS, NoneS),
                          CanonicalPersonId(NoneS, GitHubProvider, <<"u", "1">>)},
          identity_id \in {IdentityId(login) : login \in QueueLogins},
          username \in QueueLogins, email \in {NoneS, <<"a", "@", "x">>}, t \in {"t1"} :
            QueueIdentityMapping(person_id, identity_id, <<"G", "i", "t", "H", "u", "b">>,
                                 username, email, t)
    \/ \E failAt \in 0..MaxQueueOps : FlushIdentityMappings(failAt)

SpecQueue == Init /\ [][NextQueue]_vars

(***************************************************************************)
(* SpecBranch: Step 4 of process_repo_ on every store of Branch nodes that *)
(* earlier runs, or another writer of the graph, can have left: each       *)
(* remote branch unknown, or stored with the remote head or with an older  *)
(* one, marked deleted or not.                                             *)
(***************************************************************************)
StoredHeads(b) == {HeadOf(InitialCommits, b), "old"}

StoredBranches ==
    {nodes \in UNION {[{BranchId(b) : b \in bs} ->
                          [name : RemoteBranches,
                           last_commit_sha : UNION {StoredHeads(b) : b \in RemoteBranches},
                           is_deleted : BOOLEAN]] : bs \in SUBSET RemoteBranches} :
        \A id \in DOMAIN nodes :
            /\ id = BranchId(nodes[id].name)
            /\ nodes[id].last_commit_sha \in StoredHeads(nodes[id].name)}

InitBranch ==
    /\ IdleStub /\ IdleId /\ IdleQueue /\ IdleAccess /\ IdleRetry /\ IdleJira
    /\ now = StartTime
    \* main as the first run finds it, or with the pushable commits on it
    /\ remoteCommits \in
          {InitialCommits,
           [sha \in Shas |-> IF sha \in DOMAIN InitialCommits THEN InitialCommits[sha]
                                                               ELSE StartTime]}
    /\ remotePRs = InitialPRs
    /\ repoNode = [exists |-> TRUE, last_synced_at |-> 0]
    /\ branchNodes \in StoredBranches
    /\ commitNodes = EmptyMap
    /\ fileNodes = {}
    /\ prNodes = EmptyMap
    /\ identities = EmptyMap
    /\ syncRels = {<<"BRANCH_OF", id, RepoId>> : id \in DOMAIN branchNodes}
    /\ authoredBy = {}
    /\ pc = "branches"
    /\ default_branch_id = None
    /\ commits_to_process = {}
    /\ prs_to_process = EmptyMap
    /\ runs = 1
    /\ failures = 0
    /\ run = NewRun

NextBranch ==
    \E listOk \in BOOLEAN, failing \in SUBSET RemoteBranches : ProcessBranches(listOk, failing)

SpecBranch == InitBranch /\ [][NextBranch]_vars

(***************************************************************************)
(* SpecEnsure: the two stub writers called on stores that hold, at a       *)
(* stub's id, nothing, a stub, or a node carrying authoritative fields.    *)
(***************************************************************************)
\* The nodes the store can hold at the stub id of issue key k.
IssueNodeStates(k) ==
    {[key |-> k, source |-> "github_reference", summary |-> None, status |-> None]}
        \cup {[key |-> k, source |-> "jira", summary |-> "s1", status |-> st] : st \in Statuses}

\* The nodes the store can hold at stub id id: the stub of one of the names
\* with that id, or the node of a GitHub team.
TeamNodeStates(id) ==
    {[name |-> t, source |-> src] :
        t \in {n \in TeamNames : TeamStubId(n) = id}, src \in {"jira_reference", "github"}}

TeamStubIds == {TeamStubId(t) : t \in TeamNames}

InitEnsure ==
    /\ \E present \in SUBSET IssueKeys :
          \E f \in [present -> UNION {IssueNodeStates(k) : k \in IssueKeys}] :
             /\ \A k \in present : f[k] \in IssueNodeStates(k)
             /\ issueNodes = [id \in {IssueStubId(k) : k \in present} |->
                                 f[CHOOSE k \in present : IssueStubId(k) = id]]
    /\ \E present \in SUBSET TeamStubIds :
          \E g \in [present -> UNION {TeamNodeStates(id) : id \in TeamStubIds}] :
             /\ \A id \in present : g[id] \in TeamNodeStates(id)
             /\ teamNodes = g
    /\ stubbedIssues = {k \in IssueKeys : /\ IssueStubId(k) \in DOMAIN issueNodes
                                          /\ issueNodes[IssueStubId(k)].source = "github_reference"}
    /\ stubbedTeams = {t \in TeamNames : /\ TeamStubId(t) \in DOMAIN teamNodes
                                         /\ teamNodes[TeamStubId(t)] = [name |-> t, source |-> "jira_reference"]}
    /\ stubRels = {}
    /\ authIssues = EmptyMap
    /\ authTeams = EmptyMap
    /\ lastStub = [writer |-> None, arg |-> None, id |-> None, existed |-> FALSE]
    /\ IdleId /\ IdleSync /\ IdleQueue /\ IdleAccess /\ IdleRetry /\ IdleJira

NextEnsure ==
    \/ \E k \in IssueKeys : GetOrCreateIssueStub(k)
    \/ \E t \in TeamNames : GetOrCreateTeamStub(t)

SpecEnsure == InitEnsure /\ [][NextEnsure]_vars

(***************************************************************************)
(* SpecStub: the stub writers and the authoritative writers, in any order. *)
(***************************************************************************)

NextStub ==
    \/ \E k \in IssueKeys : GetOrCreateIssueStub(k)
    \/ \E t \in TeamNames : GetOrCreateTeamStub(t)
    \/ \E d \in JiraIssueData, s \in {"s1", "s2"}, st \in Statuses,
          t \in TeamNames \cup {NoTeam} :
          NewIssueHandler(d.id, d.key, s, st, t)
    \/ \E t \in GithubTeams : NewTeamHandler(t)

SpecStub == Init /\ [][NextStub]_vars

\* The Issue nodes the store holds for issue key k.
IssueNodesFor(k) == {id \in DOMAIN issueNodes : issueNodes[id].key = k}

\* The Team nodes the store holds for the team named t.
TeamNodesFor(t) == {id \in DOMAIN teamNodes : teamNodes[id].name = t}

\* C1: once a stub was created for issue key K and the authoritative Jira upsert
\* for K has run, the store holds exactly one Issue node for K and it carries
\* the authoritative fields.
C1_IssueStubsConverge ==
    \A k \in stubbedIssues \cap DOMAIN authIssues :
        /\ Cardinality(IssueNodesFor(k)) = 1
        /\ \A id \in IssueNodesFor(k) :
              /\ issueNodes[id].summary = authIssues[k].summary
              /\ issueNodes[id].status = authIssues[k].status

\* C2: once a stub was created for team name T and the authoritative GitHub upsert
\* for the team named T has run, the store holds exactly one Team node for T and
\* it carries the authoritative fields.
C2_TeamStubsConverge ==
    \A t \in stubbedTeams \cap DOMAIN authTeams :
        /\ Cardinality(TeamNodesFor(t)) = 1
        /\ \A id \in TeamNodesFor(t) : teamNodes[id].source = "github"

(***************************************************************************)
(* SpecSync: process_repo_ run up to MaxRuns times while GitHub changes.   *)
(***************************************************************************)

NextSync ==
    \/ \E ok \in BOOLEAN : StartRun(ok)
    \/ ProcessCollaborators
    \/ ProcessTeams
    \/ \E listOk \in BOOLEAN, failing \in SUBSET RemoteBranches : ProcessBranches(listOk, failing)
    \/ \E listOk \in BOOLEAN : FetchCommits(listOk)
    \/ \E fail \in AllCommitFailures : HandleCommit(fail)
    \/ \E listOk \in BOOLEAN : FetchPRs(listOk)
    \/ \E ok \in BOOLEAN : HandlePR(ok)
    \/ \E ok \in BOOLEAN : UpdateLastSynced(ok)
    \/ \E sha \in PushableShas : Push(sha)
    \/ \E n \in PRNumbers, merged \in BOOLEAN : ClosePR(n, merged)
    \/ \E n \in PRNumbers : ReopenPR(n)

SpecSync == Init /\ [][NextSync]_vars

\* C3: at the end of a run in which the commit pass or the pull-request pass
\* failed (the listing raised or a handler reported a failure), last_synced_at
\* is what it was when the run started.
C3_MarkerOnlyAfterSuccess ==
    (pc = "idle" /\ run.completed /\ (run.commitPassFailed \/ run.prPassFailed))
        => repoNode.last_synced_at = run.syncedAtStart

\* C4: at the end of a run that started with the remote as the run before it
\* left it, every commit whose file step raised in the run before has been
\* passed to new_commit_handler again.
C4_FailedFileStepRetried ==
    (pc = "idle" /\ run.completed /\ run.remoteSame)
        => run.prevFileFailed \subseteq run.handled

\* C5: a Commit node with fully_synced = true has a MODIFIES relationship to
\* the File node of every file of its commit.
C5_FullySyncedHasAllModifies ==
    \A c \in DOMAIN commitNodes :
        commitNodes[c].fully_synced =>
            \A i \in 1..Len(FilesOf(commitNodes[c].sha)) :
                <<"MODIFIES", c, FileId(FilesOf(commitNodes[c].sha)[i])>> \in syncRels

\* C6: no commit whose sha get_fully_synced_commit_shas returned in this run
\* is passed to new_commit_handler in this run.
C6_FullySyncedSkipped == run.handled \cap run.existing_shas = {}

\* A commit pass is over in which a fetched commit was already fully synced.
C6_Witness ==
    /\ pc \in {"prs", "pr_loop", "update", "idle"}
    /\ run.fetched \cap run.existing_shas # {}
    /\ run.handled # {}

(***************************************************************************)
(* Spec: IdentityResolver and one PersonCache resolving on one store.      *)
(***************************************************************************)

Next ==
    \/ \E e \in EmailInputs, n \in NameInputs, p \in ProviderInputs,
          x \in ExternalIdInputs : IRResolve(e, n, p, x)
    \/ \E e \in EmailInputs, n \in NameInputs, p \in ProviderInputs,
          x \in ExternalIdInputs : PCResolve(e, n, p, x)

Spec == Init /\ [][Next]_vars

(***************************************************************************)
(* SpecStore: the two resolvers on a store that already holds a Person     *)
(* written under another id scheme by another loader of the same graph.    *)
(***************************************************************************)
ForeignPersonId == <<"e", "m", "p", "_", "7">>

InitStore ==
    /\ IdleStub /\ IdleSync /\ IdleQueue /\ IdleAccess /\ IdleRetry /\ IdleJira
    /\ persons = [id \in {ForeignPersonId} |-> [name |-> "N1", email |-> <<"a", "@", "x">>]]
    /\ email_cache = EmptyMap
    /\ provider_cache = EmptyMap
    /\ cache_hits = 0
    /\ cache_misses = 0
    /\ db_queries = 0
    /\ lastCall = NoCall
    /\ returned = [w \in {"IdentityResolver", "PersonCache"} |-> EmptyMap]
    /\ returnedPair = [w \in {"IdentityResolver", "PersonCache"} |-> EmptyMap]
    /\ pc_writes = 0
    /\ refPersons = EmptyMap
    /\ agree = [ir |-> NoneS, pc |-> NoneS]

SpecStore == InitStore /\ [][Next]_vars

(***************************************************************************)
(* SpecAgree: the same sequence of resolve calls issued to                 *)
(* IdentityResolver (on the store refPersons) and to a PersonCache (on the *)
(* store persons), both starting empty.                                    *)
(***************************************************************************)
AgreeResolve(email, name, provider, external_id) ==
    /\ cache_hits + cache_misses < MaxCacheCalls
    /\ \E ri \in get_or_create_person(refPersons, email, name, provider, external_id),
          rp \in PersonCache_get_or_create_person(Cache, persons, email, name,
                                                  provider, external_id) :
        /\ refPersons' = ri.persons
        /\ persons' = rp.persons
        /\ email_cache' = rp.cache.email_cache
        /\ provider_cache' = rp.cache.provider_cache
        /\ cache_hits' = rp.cache.cache_hits
        /\ cache_misses' = rp.cache.cache_misses
        /\ db_queries' = rp.cache.db_queries
        /\ agree' = [ir |-> ri.id, pc |-> rp.id]
        /\ UNCHANGED <<lastCall, returned, returnedPair, pc_writes>>
        /\ UNCHANGED <<stubVars, syncVars, queueVars, accessVars, retryVars, jiraVars>>


NextAgree ==
    \E e \in EmailInputs, n \in NameInputs, p \in ProviderInputs,
       x \in ExternalIdInputs : AgreeResolve(e, n, p, x)

SpecAgree == Init /\ [][NextAgree]_vars

\* C8: from an empty store and an empty cache, every call of the common sequence
\* returns the same person id from PersonCache as from IdentityResolver.
C8_CacheAgreesWithResolver == agree.ir = agree.pc

\* C7: two resolve calls on the same resolver whose emails differ only in letter
\* case return the same person id, and the second one reports is_new = false.
C7_ResolveIdempotentAcrossCase ==
    /\ \A w \in DOMAIN returned : \A e1, e2 \in DOMAIN returned[w] :
          StrLower(e1) = StrLower(e2) =>
              Cardinality(returned[w][e1] \cup returned[w][e2]) = 1
    /\ lastCall.seen_before => ~lastCall.is_new

\* C9: the store holds at most one Person node for each non-null email value.
C9_OnePersonPerEmail ==
    \A i, j \in DOMAIN persons :
        (persons[i].email # NoneS /\ persons[i].email = persons[j].email) => i = j

\* C9 witness: two resolve calls with the same email and different provider
\* identities have run, through the resolver and through the cache, and the
\* store holds the one Person of that email beside a provider-keyed Person.
C9_Witness ==
    /\ \E i \in DOMAIN persons : persons[i].email = <<"a", "@", "x">>
    /\ \E i \in DOMAIN persons : persons[i].email = NoneS
    /\ lastCall.who = "PersonCache"
    /\ lastCall.email = <<"a", "@", "x">>
    /\ lastCall.provider = <<"j", "i", "r", "a">>
    /\ ~lastCall.is_new
    /\ Cardinality(returned["IdentityResolver"][<<"a", "@", "x">>]) = 1

\* C10: a Person that resolve has just created has the id person_<email> when a
\* non-empty email was given, and person_<provider>_<external_id> otherwise; an
\* empty-string email is stored and keyed exactly like an absent one.
C10_CanonicalIdRule ==
    lastCall.is_new =>
        LET hasEmail == lastCall.email # NoneS /\ lastCall.email # << >>
            expected == IF hasEmail
                        THEN <<"p", "e", "r", "s", "o", "n", "_">> \o lastCall.email
                        ELSE <<"p", "e", "r", "s", "o", "n", "_">> \o lastCall.provider
                                 \o <<"_">> \o lastCall.external_id
        IN /\ lastCall.id = expected
           /\ expected \in DOMAIN persons
           /\ persons[expected].email = IF hasEmail THEN lastCall.email ELSE NoneS
           /\ ~hasEmail => lastCall.provider \notin {NoneS, << >>}
                           /\ lastCall.external_id \notin {NoneS, << >>}

\* C10 witness: with an email-keyed Person already created, a PersonCache call
\* with an empty-string email has created the Person keyed by its provider
\* identity, stored without email.
C10_Witness ==
    /\ lastCall.is_new
    /\ lastCall.email = << >>
    /\ lastCall.who = "PersonCache"
    /\ lastCall.id = <<"p", "e", "r", "s", "o", "n", "_", "j", "i", "r", "a", "_", "u", "1">>
    /\ lastCall.id \in DOMAIN persons
    /\ persons[lastCall.id].email = NoneS
    /\ <<"p", "e", "r", "s", "o", "n", "_", "A", "@", "x">> \in DOMAIN persons

\* A resolve call c that carries no identifier: no (or an empty) email, and
\* not both provider and external_id.
MissingIdentifier(c) ==
    /\ c.who # None
    /\ c.email \in {NoneS, << >>}
    /\ c.provider \in {NoneS, << >>} \/ c.external_id \in {NoneS, << >>}

\* C11: a resolve call without identifier returns a null id with is_new = false,
\* reads and writes nothing in the store and leaves both lookup tables of the
\* PersonCache as they were.
C11_MissingIdentifier ==
    [][MissingIdentifier(lastCall') =>
          /\ lastCall'.id = NoneS
          /\ ~lastCall'.is_new
          /\ ~lastCall'.queried /\ ~lastCall'.wrote
          /\ persons' = persons
          /\ db_queries' = db_queries
          /\ email_cache' = email_cache
          /\ provider_cache' = provider_cache]_vars

\* C11 witness: on a store and a cache that hold a Person, the PersonCache has
\* answered a call that named a provider but no external id and no email.
C11_Witness ==
    /\ MissingIdentifier(lastCall)
    /\ lastCall.who = "PersonCache"
    /\ lastCall.provider = <<"j", "i", "r", "a">>
    /\ lastCall.id = NoneS
    /\ DOMAIN persons # {}
    /\ DOMAIN email_cache # {}

\* The Person nodes of the store that carry the email of call c.
PersonsWithEmail(store, c) ==
    {i \in DOMAIN store : TruthyS(c.email) /\ store[i].email = c.email}

\* C12: a resolve call with an email that a Person of the store already carries
\* returns that Person's id with is_new = false and writes nothing, whatever
\* the canonical id of the call's inputs is.
C12_ExistingEmailNoWrite ==
    [][(lastCall'.who # None /\ PersonsWithEmail(persons, lastCall') # {}) =>
          /\ lastCall'.id \in PersonsWithEmail(persons, lastCall')
          /\ ~lastCall'.is_new
          /\ ~lastCall'.wrote
          /\ persons' = persons]_vars

\* C12 witness: a call whose canonical id is person_a@x has returned the id of
\* the Person another loader wrote with that email, and person_a@x does not exist.
C12_Witness ==
    /\ lastCall.who = "IdentityResolver"
    /\ lastCall.email = <<"a", "@", "x">>
    /\ lastCall.provider = <<"j", "i", "r", "a">>
    /\ lastCall.id = ForeignPersonId
    /\ ~lastCall.is_new
    /\ CanonicalPersonId(lastCall.email, lastCall.provider, lastCall.external_id)
           \notin DOMAIN persons

\* C13: on each resolver, all the calls without email that named the same
\* (provider, external_id) pair returned one and the same person id.
C13_ProviderIdDeterministic ==
    \A w \in DOMAIN returnedPair : \A pair \in DOMAIN returnedPair[w] :
        Cardinality(returnedPair[w][pair]) = 1

\* C14: a PersonCache call whose email (if given) or else whose provider pair
\* is in the corresponding table returns the cached id with is_new = false,
\* adds one to the hit counter and changes nothing else: no store read, no
\* store write, no other counter, no table entry.
C14_CacheHitLeavesStore ==
    [][LET c == lastCall'
           email == NormalizeEmail(c.email)
           inTable == IF email # NoneS
                      THEN email \in DOMAIN email_cache
                      ELSE <<c.provider, c.external_id>> \in DOMAIN provider_cache
           entry == IF email # NoneS THEN email_cache[email]
                    ELSE provider_cache[<<c.provider, c.external_id>>]
       IN (c.who = "PersonCache" /\ cache_hits + cache_misses < cache_hits' + cache_misses'
              /\ inTable) =>
              /\ c.id = entry
              /\ ~c.is_new
              /\ ~c.queried /\ ~c.wrote
              /\ persons' = persons
              /\ cache_hits' = cache_hits + 1
              /\ cache_misses' = cache_misses
              /\ db_queries' = db_queries
              /\ email_cache' = email_cache
              /\ provider_cache' = provider_cache]_vars

\* C14 witness: the cache has answered a call without email from its provider
\* table, with an id that is not the canonical id of that pair.
C14_Witness ==
    /\ lastCall.who = "PersonCache"
    /\ lastCall.hit
    /\ ~TruthyS(lastCall.email)
    /\ lastCall.id = provider_cache[<<lastCall.provider, lastCall.external_id>>]
    /\ lastCall.id # CanonicalPersonId(NoneS, lastCall.provider, lastCall.external_id)

\* C15: on one PersonCache the email queries issued are at most as many as the
\* distinct non-empty emails resolved, and the Persons created at most as many
\* as the distinct lookup keys (email, or provider pair without email) seen.
C15_RoundTripsBounded ==
    /\ db_queries <= Cardinality(DOMAIN returned["PersonCache"])
    /\ pc_writes <= Cardinality(DOMAIN returned["PersonCache"])
                        + Cardinality(DOMAIN returnedPair["PersonCache"])

\* C15 witness: the cache has served more calls than it issued queries or
\* created Persons: an email was resolved again and answered from the table.
C15_Witness ==
    /\ lastCall.who = "PersonCache"
    /\ lastCall.hit
    /\ TruthyS(lastCall.email)
    /\ db_queries = Cardinality(DOMAIN returned["PersonCache"])
    /\ pc_writes >= 1
    /\ cache_hits + cache_misses > db_queries

(***************************************************************************)
(* C16: queue_identity_mapping is idempotent per identity_id.  A call      *)
(* whose identity_id is already pending leaves the pending map unchanged,  *)
(* whatever its other arguments, and every record a flush writes is the    *)
(* one of the call that made its identity_id pending.                      *)
(***************************************************************************)
C16_QueueIdempotentPerIdentity ==
    [][/\ (lastQueue'.n # lastQueue.n /\ lastQueue'.was_pending)
              => pending_identities' = pending_identities
       /\ lastFlush'.n # lastFlush.n
              => \A i \in 1..Len(lastFlush'.written) :
                    LET w == lastFlush'.written[i]
                    IN /\ w.identity.id \in DOMAIN first_queued
                       /\ w = first_queued[w.identity.id]]_vars

\* A repeated call with other arguments was made for a pending identity_id,
\* and a flush then wrote that identity_id.
C16_Witness ==
    /\ lastQueue.was_pending
    /\ lastFlush.n > lastQueue.n
    /\ ~lastFlush.raised
    /\ \E i \in 1..Len(lastFlush.written) :
          /\ lastFlush.written[i].identity.id = lastQueue.identity_id
          /\ lastFlush.written[i] # lastQueue.pair

C18_OtherIdentityAfterFlushAccepted ==
    [][/\ (lastQueue'.n # lastQueue.n /\ lastQueue'.was_flushed /\ ~lastQueue'.was_pending)
              => lastQueue'.identity_id \in PendingIds(pending_identities')
       /\ (lastFlush'.n # lastFlush.n /\ ~lastFlush'.raised)
              => PendingIds(pending_identities) \subseteq DOMAIN identities']_vars

(***************************************************************************)
(* C18, amended: another identity_id of person P is accepted into the      *)
(* pending map, and written with its link to P by the next complete flush, *)
(* when it is queued before any flush has written a link for P; queued     *)
(* after that, it is not accepted.                                         *)
(***************************************************************************)
C18_OtherIdentityOnlyBeforeFlush ==
    [][/\ (lastQueue'.n # lastQueue.n /\ ~lastQueue'.was_pending)
              => pending_identities' = IF lastQueue'.was_written
                                       THEN pending_identities
                                       ELSE Append(pending_identities, lastQueue'.pair)
       /\ (lastFlush'.n # lastFlush.n /\ ~lastFlush'.raised)
              => \A i \in 1..Len(pending_identities) :
                    LET p == pending_identities[i]
                    IN /\ p.identity.id \in DOMAIN identities'
                       /\ identities'[p.identity.id].person = p.relationship.to_id
                       /\ identities'[p.identity.id].username = p.identity.username]_vars

\* A flush wrote a link for a person, and a later call brought another,
\* not pending, identity_id for that person.
C18_Witness ==
    /\ lastQueue.n > lastFlush.n
    /\ lastQueue.was_flushed
    /\ ~lastQueue.was_pending
    /\ \E i \in 1..Len(lastFlush.written) :
          /\ lastFlush.written[i].relationship.to_id = lastQueue.person_id
          /\ lastFlush.written[i].identity.id # lastQueue.identity_id

(***************************************************************************)
(* C19: a flush that returns has given every pending record once to the    *)
(* store, each with its link to its Person, in their order, has marked     *)
(* every person of these records as flushed and has left the pending map   *)
(* empty; it leaves every other node of the store alone.  With nothing     *)
(* pending it writes nothing, so a flush that follows a flush writes       *)
(* nothing.                                                                *)
(***************************************************************************)
C19_FlushWritesPendingOnce ==
    [][(lastFlush'.n # lastFlush.n /\ ~lastFlush'.raised) =>
          /\ lastFlush'.written = pending_identities
          /\ DOMAIN identities' = DOMAIN identities \cup PendingIds(pending_identities)
          /\ \A i \in 1..Len(pending_identities) :
                LET p == pending_identities[i]
                IN /\ identities'[p.identity.id] =
                          [username |-> p.identity.username, email |-> p.identity.email,
                           person |-> p.relationship.to_id]
                   /\ p.relationship.to_id \in flushed_persons'
          /\ \A id \in DOMAIN identities \ PendingIds(pending_identities) :
                identities'[id] = identities[id]
          /\ flushed_persons' = flushed_persons \cup
                {pending_identities[i].relationship.to_id :
                    i \in 1..Len(pending_identities)}
          /\ pending_identities' = << >>
          /\ (pending_identities = << >> =>
                lastFlush'.written = << >> /\ identities' = identities)
          /\ ((lastFlush.n = queue_ops /\ lastFlush.n > 0 /\ ~lastFlush.raised) =>
                lastFlush'.written = << >> /\ identities' = identities)]_vars

\* A flush wrote two records and the flush called right after it has
\* returned.
C19_Witness ==
    /\ lastFlush.n = queue_ops
    /\ ~lastFlush.raised
    /\ lastFlush.before = << >>
    /\ Cardinality(DOMAIN identities) = 2
    /\ pending_identities = << >>

(***************************************************************************)
(* C20: the since-boundary of a run's commit fetch and of its pull request *)
(* fetch is the stored last_synced_at when the Repository node holds one,  *)
(* and the time of the fetch minus the lookback of 60 days only when it    *)
(* holds none; once update_last_synced_at has stored a timestamp, the      *)
(* fetches of the next run use that timestamp.                             *)
(***************************************************************************)
C20_FetchWindow ==
    /\ run.commitSince # 0 =>
          /\ run.commitSince = IF run.syncedAtStart # 0 THEN run.syncedAtStart
                               ELSE run.commitAt - 60
          /\ (run.stored # 0 /\ ~run.completed) => run.commitSince = run.stored
    /\ run.prSince # 0 =>
          /\ run.prSince = IF run.syncedAtStart # 0 THEN run.syncedAtStart
                           ELSE run.prAt - 60
          /\ (run.stored # 0 /\ ~run.completed) => run.prSince = run.stored

\* update_last_synced_at has stored a timestamp in an earlier run, and this
\* run has fetched commits and pull requests since that timestamp.
C20_Witness ==
    /\ run.stored # 0
    /\ ~run.completed
    /\ run.commitSince = run.stored
    /\ run.prSince = run.stored

(***************************************************************************)
(* C21: when the Repository node cannot be created, process_repo raises at *)
(* once: the run is over, no collaborator, team, branch, commit or pull    *)
(* request has been processed, nothing has been written to the store and   *)
(* last_synced_at is what it was before the run.                           *)
(***************************************************************************)
C21_RootFailureFatal ==
    [][/\ (runs' # runs /\ run'.rootFailed) =>
              /\ pc' = "idle"
              /\ storeVars' = storeVars
              /\ persons' = persons /\ issueNodes' = issueNodes
       /\ run'.rootFailed =>
              /\ pc' = "idle"
              /\ ~run'.commitPass /\ ~run'.completed
              /\ run'.handled = {} /\ run'.commitSince = 0 /\ run'.prSince = 0
              /\ repoNode'.last_synced_at = run'.syncedAtStart
              /\ (runs' = runs => storeVars' = storeVars)]_vars

\* A run failed at the Repository node after an earlier run had stored a
\* last_synced_at, while the remote holds a commit no run has fetched.
C21_Witness ==
    /\ run.rootFailed
    /\ repoNode.last_synced_at # 0
    /\ \E sha \in DOMAIN remoteCommits : CommitId(sha) \notin DOMAIN commitNodes

(***************************************************************************)
(* C22: a commit for which a write of new_commit_handler failed (the       *)
(* Commit node, a File node or a MODIFIES relationship) is counted in      *)
(* commits_failed, its Commit node is not marked fully_synced, and the     *)
(* pass goes on: at the end of the pass every commit to process has been   *)
(* handled.                                                                *)
(***************************************************************************)
C22_WriteFailureAbsorbed ==
    /\ \A sha \in run.writeFailed :
          /\ sha \in run.commits_failed
          /\ CommitId(sha) \in DOMAIN commitNodes
                => ~commitNodes[CommitId(sha)].fully_synced
    /\ (run.writeFailed # {} /\ pc \in {"prs", "pr_loop", "update", "idle"})
          => run.handled = run.fetched \ run.existing_shas

(***************************************************************************)
(* C23: at the end of a pull-request pass, the pull requests inside the    *)
(* window that were not passed to new_pull_request_handler are those whose *)
(* number get_fully_synced_pr_numbers returned and whose remote state is   *)
(* not open; a pull request stored as closed and listed as open is passed  *)
(* to the handler.                                                         *)
(***************************************************************************)
C23_PRDeltaFilter ==
    (run.prListed /\ pc \in {"update", "idle"}) =>
        \A n \in DOMAIN run.recent_prs :
            n \notin run.prHandled
                <=> (n \in run.existing_pr_numbers /\ run.recent_prs[n].state # "open")

\* A pass is over in which a pull request stored as closed was listed as
\* open and handled.
C23_Witness ==
    /\ run.prListed
    /\ pc = "update"
    /\ \E n \in DOMAIN run.recent_prs :
          /\ n \in run.existing_pr_numbers
          /\ run.prStateBefore[PrId(n)] = "closed"
          /\ run.recent_prs[n].state = "open"
          /\ n \in run.prHandled

C25_BranchDeltaFilter ==
    [][(pc = "branches" /\ run'.branchesListed) =>
          LET stored == {id \in DOMAIN branchNodes : <<"BRANCH_OF", id, RepoId>> \in syncRels}
          IN \A b \in RemoteBranches :
                /\ b \in run'.branchesHandled
                      <=> \/ BranchId(b) \notin stored
                          \/ branchNodes[BranchId(b)].last_commit_sha # HeadOf(remoteCommits, b)
                          \/ branchNodes[BranchId(b)].is_deleted
                /\ b \notin run'.branchesHandled
                      => /\ branchNodes'[BranchId(b)] = branchNodes[BranchId(b)]
                         /\ {r \in syncRels' : r[2] = BranchId(b) \/ r[3] = BranchId(b)}
                               = {r \in syncRels : r[2] = BranchId(b) \/ r[3] = BranchId(b)}]_vars

\* Step 4 has passed to the handler a branch that is stored with the remote
\* head and marked deleted (the handler raised, the node is as it was), and
\* has skipped the other branch.
C25_Witness ==
    /\ pc = "commits"
    /\ run.branchesListed
    /\ run.branchesHandled = {"main"}
    /\ {BranchId("main"), BranchId("dev")} \subseteq DOMAIN branchNodes
    /\ branchNodes[BranchId("main")].is_deleted
    /\ branchNodes[BranchId("main")].last_commit_sha = HeadOf(remoteCommits, "main")
    /\ branchNodes[BranchId("dev")].last_commit_sha = HeadOf(remoteCommits, "dev")
    /\ ~branchNodes[BranchId("dev")].is_deleted

C27_FreshCollaboratorLinked ==
    (lastAccess.op = "collaborators" /\ lastAccess.listed) =>
        \A login \in lastAccess.recent :
            <<"COLLABORATOR", githubIdentities[IdentityGithubId(login)].person,
              lastAccess.target>> \in stubRels

\* C28: get_or_create_issue_stub and get_or_create_team_stub return the id
\* built from their argument; when no node has that id they create it with
\* the minimal fields and the provenance tag, and when a node has it, stub
\* or enriched, they leave every node as it is; a call repeated at once
\* returns the same id and changes nothing.
C28_StubCreateOnly ==
    [][/\ lastStub'.writer = "get_or_create_issue_stub" =>
             /\ lastStub'.id = IssueStubId(lastStub'.arg)
             /\ teamNodes' = teamNodes
             /\ issueNodes' = IF lastStub'.id \in DOMAIN issueNodes
                              THEN issueNodes
                              ELSE Upsert(issueNodes, lastStub'.id,
                                          [key |-> lastStub'.arg, source |-> "github_reference",
                                           summary |-> None, status |-> None])
       /\ lastStub'.writer = "get_or_create_team_stub" =>
             /\ lastStub'.id = TeamStubId(lastStub'.arg)
             /\ issueNodes' = issueNodes
             /\ teamNodes' = IF lastStub'.id \in DOMAIN teamNodes
                             THEN teamNodes
                             ELSE Upsert(teamNodes, lastStub'.id,
                                         [name |-> lastStub'.arg, source |-> "jira_reference"])
       /\ (lastStub.writer = lastStub'.writer /\ lastStub.arg = lastStub'.arg) =>
             /\ lastStub'.id = lastStub.id
             /\ issueNodes' = issueNodes /\ teamNodes' = teamNodes]_vars

\* get_or_create_issue_stub has been called on an Issue node that carries
\* authoritative fields, and the node still carries them.
C28_Witness ==
    /\ lastStub.writer = "get_or_create_issue_stub"
    /\ lastStub.existed
    /\ issueNodes[lastStub.id].source = "jira"
    /\ issueNodes[lastStub.id].status = "Done"
    /\ \E id \in DOMAIN teamNodes : teamNodes[id].source = "github"

\* C29: retry_with_backoff with the defaults (max_retries 5, initial_delay 1)
\* on a func that raises a rate-limit error four times and then returns,
\* returns func's value after exactly five invocations and exactly four
\* sleeps of 1, 2, 4 and 8 seconds.
C29_FourRetriesThenSuccess ==
    (/\ retry_pc = "done"
     /\ max_retries = DefaultMaxRetries /\ initial_delay = DefaultInitialDelay
     /\ \A i \in 1..4 : func[i].raises /\ IsRateLimit(StrLower(func[i].text))
     /\ ~func[5].raises) =>
        /\ outcome = [kind |-> "returned", text |-> func[5].text]
        /\ calls = 5
        /\ sleeps = <<1, 2, 4, 8>>

\* Such a call has ended.
C29_Witness ==
    /\ retry_pc = "done"
    /\ max_retries = DefaultMaxRetries /\ initial_delay = DefaultInitialDelay
    /\ \A i \in 1..4 : func[i].raises /\ IsRateLimit(StrLower(func[i].text))
    /\ ~func[5].raises
    /\ outcome.kind = "returned"
    /\ Len(sleeps) = 4

\* C30 as stated: when retry_with_backoff ends on an error that is not a
\* rate-limit error, func was invoked exactly once, no sleep happened and the
\* error is the one propagated.
C30_OneInvocationNoSleep ==
    outcome.kind = "reraised" =>
        /\ calls = 1
        /\ sleeps = << >>
        /\ outcome.text = func[calls].text

\* C30 amended: an error that is not a rate-limit error ends the call at the
\* attempt it occurs at: func is not invoked again, no sleep follows it, and
\* the error propagates as it is; before it there was one invocation and one
\* sleep for each rate-limit error.
C30_NoRetryAfterOtherError ==
    /\ outcome.kind = "reraised" =>
          /\ retry_pc = "done"
          /\ calls = attempt + 1
          /\ Len(sleeps) = calls - 1
          /\ outcome.text = func[calls].text
          /\ ~IsRateLimit(StrLower(func[calls].text))
          /\ \A i \in 1..(calls - 1) : func[i].raises /\ IsRateLimit(StrLower(func[i].text))
    /\ (retry_pc = "done" /\ calls >= 1 /\ func[calls].raises
        /\ ~IsRateLimit(StrLower(func[calls].text))) => outcome.kind = "reraised"

\* The error came at the third attempt, after two rate-limit errors.
C30_Witness ==
    /\ outcome.kind = "reraised"
    /\ calls = 3
    /\ sleeps = <<initial_delay, 2 * initial_delay>>
    /\ max_retries > 3

\* C31: every call of retry_with_backoff ends; func is invoked at most
\* max_retries times and, when max_retries is at least 1, slept after at most
\* max_retries - 1 times; when every invocation raises a rate-limit error the
\* call ends, after max_retries invocations, with the exception that carries
\* the last error's message.
C31_RetryTerminates ==
    /\ <>(retry_pc = "done")
    /\ [](/\ calls <= max_retries
          /\ Len(sleeps) + 1 <= IF max_retries = 0 THEN 1 ELSE max_retries
          /\ (/\ retry_pc = "done" /\ max_retries >= 1
              /\ \A i \in 1..max_retries :
                    func[i].raises /\ IsRateLimit(StrLower(func[i].text)))
                => /\ calls = max_retries
                   /\ Len(sleeps) = max_retries - 1
                   /\ outcome = [kind |-> "exhausted",
                                 text |-> MaxRetriesExceeded(func[max_retries].text)])

\* A call with the default max_retries whose func raised a rate-limit error
\* every time has ended.
C31_Witness ==
    /\ retry_pc = "done"
    /\ max_retries = DefaultMaxRetries
    /\ \A i \in 1..max_retries : func[i].raises /\ IsRateLimit(StrLower(func[i].text))
    /\ outcome.kind = "exhausted"
    /\ calls = 5 /\ Len(sleeps) = 4

\* C32: however often the bulk collaborator write has run, the store holds
\* exactly one MAPS_TO relationship per identity and exactly one
\* COLLABORATOR relationship per person and repository it wrote.
C32_BulkWriteNoDuplicates ==
    \A e \in DOMAIN edgeCount : edgeCount[e] = 1

C34_FixedStepOrder ==
    [][/\ pc' # pc =>
            \/ pc = "idle" /\ pc' = "collaborators"
            \/ pc = "collaborators" /\ pc' = "teams"
            \/ pc = "teams" /\ pc' = "branches"
            \/ pc = "branches" /\ pc' = "commits"
            \/ pc = "commits" /\ pc' \in {"commit_loop", "prs"}
            \/ pc = "commit_loop" /\ pc' = "prs" /\ commits_to_process' = {}
            \/ pc = "prs" /\ pc' \in {"pr_loop", "update"}
            \/ pc = "pr_loop" /\ pc' = "update" /\ DOMAIN prs_to_process' = {}
            \/ pc = "update" /\ pc' = "idle"
       /\ repoNode'.exists # repoNode.exists => pc = "idle"
       /\ branchNodes' # branchNodes => pc = "branches" /\ pc' = "commits"
       /\ commitNodes' # commitNodes =>
            pc = "commit_loop" /\ Cardinality(run'.handled \ run.handled) = 1
       /\ prNodes' # prNodes =>
            pc = "pr_loop" /\ Cardinality(run'.prHandled \ run.prHandled) = 1
       /\ repoNode'.last_synced_at # repoNode.last_synced_at =>
            pc = "update" /\ pc' = "idle"]_vars

\* C34 witness: a run listed branches, handled a commit and a pull request
\* and has reached the last_synced_at update.
C34_Witness ==
    /\ pc = "update"
    /\ run.branchesHandled # {}
    /\ run.handled # {}
    /\ run.prHandled # {}

\* C35: in a repository run the commit pass is entered exactly when Step 4
\* handled the default branch in that run (the branch was new, its head had
\* moved or it was marked deleted).  When it did not, the run lists and
\* handles no commit, whatever commits without fully_synced the store holds.
C35_CommitPassIffDefaultBranchHandled ==
    (pc \in {"commit_loop", "prs", "pr_loop", "update"} \/ (pc = "idle" /\ run.completed))
        => /\ run.commitPass <=> (run.branchesListed /\ default_branch \in run.branchesHandled)
           /\ default_branch \notin run.branchesHandled
                 => run.fetched = {} /\ run.handled = {} /\ commits_to_process = {}

\* C35 witness: a run found the default branch unchanged and skipped the
\* commit pass while the store holds a commit that is not fully synced.
C35_Witness ==
    /\ pc = "update"
    /\ run.branchesListed
    /\ default_branch \notin run.branchesHandled
    /\ ~run.commitPass
    /\ run.handled = {}
    /\ \E c \in DOMAIN commitNodes : ~commitNodes[c].fully_synced

\* C36: a call of identity_resolver.get_or_create_person that reports
\* is_new = true returns an id no Person node of the store had before the
\* call, with an email and without one.
C36_IsNewOnlyForNewNode ==
    [][(/\ lastCall' # lastCall
        /\ lastCall'.who = "IdentityResolver"
        /\ lastCall'.is_new)
          => lastCall'.id \notin DOMAIN persons]_vars

\* C37: a flush in which a store write raises leaves every record that was
\* pending before it pending, the records already written included, and the
\* error leaves the method; the flush after it hands every one of those
\* records to the store again.
C37_FailedFlushKeepsPending ==
    [][lastFlush'.n # lastFlush.n =>
          /\ lastFlush'.before = pending_identities
          /\ lastFlush'.raised => pending_identities' = pending_identities
          /\ ~lastFlush'.raised =>
                /\ lastFlush'.written = pending_identities
                /\ pending_identities' = << >>
          /\ (lastFlush.raised /\ ~lastFlush'.raised) =>
                \A i \in 1..Len(lastFlush.before) :
                    \E j \in 1..Len(lastFlush'.written) :
                        lastFlush'.written[j] = lastFlush.before[i]]_vars

\* C37 witness: the second write of a flush over two pending records raised;
\* the first record is in the store and both are still pending.
C37_Witness ==
    /\ lastFlush.raised
    /\ Len(lastFlush.before) = 2
    /\ Len(lastFlush.written) = 1
    /\ lastFlush.written[1].identity.id \in DOMAIN identities
    /\ pending_identities = lastFlush.before


\* C38: in a Jira run every epic id in processed_epics has an Epic node in
\* the store, and the loop over all epics skips no epic whose write failed
\* when it was handled as the child of an initiative.
C38_ProcessedEpicsWritten ==
    /\ processed_epics \subseteq epicNodes
    /\ lastEpicPass.pass = "epics" => lastEpicPass.skipped \subseteq epicNodes
====
